---- MODULE Spec2Model ----
(***************************************************************************)
(* A model of pbir-utils: the rename engine (CSV mapping build, DAX        *)
(* expression rewriting, JSON tree rewriting) and the report sanitizer     *)
(* actions that prune a PBIR report tree.                                  *)
(*                                                                         *)
(* Text is modelled as a sequence of one-character strings, so that the    *)
(* regular expressions of json_utils.py can be modelled by what they       *)
(* match.  "\t" is the tab character and "U+00E9" stands for one non-ASCII *)
(* letter (a word character for \w, outside [A-Za-z0-9_]).                 *)
(***************************************************************************)
EXTENDS Integers, Sequences, FiniteSets, TLC

(***************************************************************************)
(* Characters and character classes                                        *)
(***************************************************************************)
QUOTE == "'"
LBR == "["
RBR == "]"
SPACE == " "
TAB == "\t"

\* [A-Za-z0-9_] of the column pattern, restricted to the letters in use
AsciiWordChars == {"A", "B", "C", "c", "d", "x"}
\* \w of the table pattern (Python 3 str patterns are Unicode aware)
WordChars == AsciiWordChars \cup {"U+00E9"}
\* \s of the table pattern
SpaceChars == {SPACE, TAB}
\* [A-Za-z0-9_ ] of the column pattern
AsciiWordOrSpace == AsciiWordChars \cup {SPACE}

\* Python truthiness of an optional dict argument (None or {} are falsy)
MapGiven(m) == DOMAIN m # {}

\* number of consecutive quote characters of s starting at index i
RECURSIVE QuoteRun(_, _)
QuoteRun(s, i) ==
    IF i <= Len(s) /\ s[i] = QUOTE THEN 1 + QuoteRun(s, i + 1) ELSE 0

\* first index >= i whose character is outside class (Len(s)+1 if none)
RECURSIVE ClassRunEnd(_, _, _)
ClassRunEnd(s, i, class) ==
    IF i <= Len(s) /\ s[i] \in class THEN ClassRunEnd(s, i + 1, class) ELSE i

\* s[i..j-1]
Slice(s, i, j) == SubSeq(s, i, j - 1)

HasChar(s, c) == \E i \in 1..Len(s) : s[i] = c

(***************************************************************************)
(* update_dax_expression, pass 1: table names                              *)
(*   (?<!\[)('+)?(\b[\w\s]+?\b)\1|\b([\w]+)\b(?!\])                        *)
(* A match is [end |-> index after the match, quotes |-> group 1,          *)
(* name |-> group 2 or 3]; end = 0 when the pattern does not match at i.   *)
(***************************************************************************)
NoMatch == [end |-> 0, quotes |-> <<>>, name |-> <<>>]

\* first alternative: the quoted run.  A backreference to a group that did
\* not take part in the match fails in Python, so group 1 is never empty.
QuotedTableMatch(s, i) ==
    LET n == QuoteRun(s, i)
        b == i + n
        j == ClassRunEnd(s, b, WordChars \cup SpaceChars)
    IN  IF /\ (i = 1 \/ s[i - 1] # LBR)
           /\ n >= 1
           /\ b <= Len(s) /\ s[b] \in WordChars
           /\ j <= Len(s) /\ s[j] = QUOTE
           /\ s[j - 1] \in WordChars
           /\ QuoteRun(s, j) >= n
        THEN [end |-> j + n, quotes |-> Slice(s, i, b), name |-> Slice(s, b, j)]
        ELSE NoMatch

\* second alternative: a bare identifier not followed by ']'
BareTableMatchNoLookahead(s, i) ==
    LET k == ClassRunEnd(s, i, WordChars)
    IN  IF /\ i <= Len(s) /\ s[i] \in WordChars
           /\ (i = 1 \/ s[i - 1] \notin WordChars)
        THEN [end |-> k, quotes |-> <<>>, name |-> Slice(s, i, k)]
        ELSE NoMatch

BareTableMatch(s, i) ==
    LET k == ClassRunEnd(s, i, WordChars)
    IN  IF /\ i <= Len(s) /\ s[i] \in WordChars
           /\ (i = 1 \/ s[i - 1] \notin WordChars)
           /\ (k > Len(s) \/ s[k] # RBR)
        THEN [end |-> k, quotes |-> <<>>, name |-> Slice(s, i, k)]
        ELSE NoMatch

TableMatch(s, i) ==
    IF QuotedTableMatch(s, i).end # 0 THEN QuotedTableMatch(s, i)
    ELSE BareTableMatch(s, i)

\* replace_table_name, mutated: always emits the bare new name
replace_table_name_unquoted(m, full, table_map) ==
    IF m.name \in DOMAIN table_map THEN table_map[m.name] ELSE full

\* replace_table_name, mutated: quotes whenever the new name has a space
replace_table_name_requote(m, full, table_map) ==
    IF m.name \in DOMAIN table_map
    THEN IF HasChar(table_map[m.name], SPACE)
         THEN <<QUOTE>> \o table_map[m.name] \o <<QUOTE>>
         ELSE table_map[m.name]
    ELSE full

replace_table_name(m, full, table_map) ==
    IF m.name \in DOMAIN table_map
    THEN LET new_table == table_map[m.name]
         IN  IF HasChar(new_table, SPACE) /\ m.quotes = <<>>
             THEN <<QUOTE>> \o new_table \o <<QUOTE>>
             ELSE m.quotes \o new_table \o m.quotes
    ELSE full

\* pattern.sub(replace_table_name, expression): leftmost matches, left to
\* right, never rescanning replaced text
RECURSIVE SubTables(_, _, _)
SubTables(s, i, table_map) ==
    IF i > Len(s) THEN <<>>
    ELSE LET m == TableMatch(s, i)
         IN  IF m.end = 0
             THEN <<s[i]>> \o SubTables(s, i + 1, table_map)
             ELSE replace_table_name(m, Slice(s, i, m.end), table_map)
                      \o SubTables(s, m.end, table_map)

(***************************************************************************)
(* update_dax_expression, pass 2: column names                             *)
(*   ('[A-Za-z0-9_ ]+'?|[A-Za-z0-9_]+)\[([A-Za-z0-9_]+)\]                  *)
(* A match is [end, table_part (group 1), column (group 2)].               *)
(***************************************************************************)
NoColMatch == [end |-> 0, table_part |-> <<>>, column |-> <<>>]

\* \[([A-Za-z0-9_]+)\] at index b, for a table part s[i..b-1]
ColumnTail(s, i, b) ==
    LET c0 == b + 1
        cEnd == ClassRunEnd(s, c0, AsciiWordChars)
    IN  IF /\ b <= Len(s) /\ s[b] = LBR
           /\ cEnd > c0
           /\ cEnd <= Len(s) /\ s[cEnd] = RBR
        THEN [end |-> cEnd + 1, table_part |-> Slice(s, i, b),
              column |-> Slice(s, c0, cEnd)]
        ELSE NoColMatch

ColumnMatch(s, i) ==
    LET r == ClassRunEnd(s, i + 1, AsciiWordOrSpace)
        q == IF r <= Len(s) /\ s[r] = QUOTE THEN 1 ELSE 0
        quoted == IF i <= Len(s) /\ s[i] = QUOTE /\ r > i + 1
                  THEN ColumnTail(s, i, r + q) ELSE NoColMatch
        rb == ClassRunEnd(s, i, AsciiWordChars)
        bare == IF rb > i THEN ColumnTail(s, i, rb) ELSE NoColMatch
    IN  IF quoted.end # 0 THEN quoted ELSE bare

\* str.strip("'")
RECURSIVE StripQuotes(_)
StripQuotes(s) ==
    IF s # <<>> /\ Head(s) = QUOTE THEN StripQuotes(Tail(s))
    ELSE IF s # <<>> /\ s[Len(s)] = QUOTE THEN StripQuotes(Slice(s, 1, Len(s)))
    ELSE s

replace_column_name(m, full, column_map) ==
    LET table_name == StripQuotes(m.table_part)
    IN  IF <<table_name, m.column>> \in DOMAIN column_map
        THEN LET new_column == column_map[<<table_name, m.column>>]
                 tp == IF HasChar(table_name, SPACE) \/ Head(m.table_part) = QUOTE
                       THEN <<QUOTE>> \o table_name \o <<QUOTE>>
                       ELSE table_name
             IN  tp \o <<LBR>> \o new_column \o <<RBR>>
        ELSE full

RECURSIVE SubColumns(_, _, _)
SubColumns(s, i, column_map) ==
    IF i > Len(s) THEN <<>>
    ELSE LET m == ColumnMatch(s, i)
         IN  IF m.end = 0
             THEN <<s[i]>> \o SubColumns(s, i + 1, column_map)
             ELSE replace_column_name(m, Slice(s, i, m.end), column_map)
                      \o SubColumns(s, m.end, column_map)

\* update_dax_expression(expression, table_map, column_map); an argument
\* left out (None) is the empty map
update_dax_expression(expression, table_map, column_map) ==
    LET e1 == IF MapGiven(table_map) THEN SubTables(expression, 1, table_map)
              ELSE expression
    IN  IF MapGiven(column_map) THEN SubColumns(e1, 1, column_map) ELSE e1

(***************************************************************************)
(* JSON values.  A value is a tagged pair: <<"str", text>>,                *)
(* <<"obj", sequence of <<key, value>> >> (a Python dict keeps its key     *)
(* order), <<"arr", sequence of values>>, or <<"lit", name>> for null,     *)
(* true, false and numbers.                                                *)
(***************************************************************************)
Str(s) == <<"str", s>>
Obj(pairs) == <<"obj", pairs>>
Arr(items) == <<"arr", items>>
Null == <<"lit", "null">>
True == <<"lit", "true">>
EmptyObj == Obj(<<>>)

IsStr(v) == v[1] = "str"
IsObj(v) == v[1] = "obj"
IsArr(v) == v[1] = "arr"
IsLit(v) == v[1] = "lit"

\* bool(v) of a JSON value
Truthy(v) ==
    IF IsLit(v) THEN v[2] \notin {"null", "false", "0"} ELSE v[2] # <<>>

\* a value Python cannot hash (dict, list)
Unhashable(v) == IsObj(v) \/ IsArr(v)

\* "name" in k, for the keys the documents use
ContainsName(k) == k \in {"name", "displayName"}

\* key in dict
Has(o, k) == \E i \in 1..Len(o[2]) : o[2][i][1] = k
\* dict[key]
Get(o, k) == o[2][CHOOSE i \in 1..Len(o[2]) : o[2][i][1] = k][2]
\* dict.get(key, default)
GetOr(o, k, default) == IF Has(o, k) THEN Get(o, k) ELSE default
\* dict[key] = value, for a key the dict holds
Put(o, k, v) ==
    Obj([i \in 1..Len(o[2]) |-> IF o[2][i][1] = k THEN <<k, v>> ELSE o[2][i]])
\* del dict[key]
RECURSIVE DropKey(_, _)
DropKey(pairs, k) ==
    IF pairs = <<>> THEN <<>>
    ELSE IF Head(pairs)[1] = k THEN DropKey(Tail(pairs), k)
    ELSE <<Head(pairs)>> \o DropKey(Tail(pairs), k)
Del(o, k) == Obj(DropKey(o[2], k))

\* a.get(k1, {}).get(k2, {})...: [ok |-> no AttributeError, v |-> the value]
RECURSIVE GetChain(_, _)
GetChain(v, keys) ==
    IF keys = <<>> THEN [ok |-> TRUE, v |-> v]
    ELSE IF ~IsObj(v) THEN [ok |-> FALSE, v |-> Null]
    ELSE GetChain(GetOr(v, Head(keys), EmptyObj), Tail(keys))

\* the value with the string at the end of a path of keys replaced; every
\* key of the path is present
RECURSIVE SetChain(_, _, _)
SetChain(v, keys, new) ==
    IF keys = <<>> THEN new
    ELSE Put(v, Head(keys), SetChain(Get(v, Head(keys)), Tail(keys), new))

\* the result of a traversal: the document as mutated in place, the
\* "updated" flag, and whether the traversal raised
Walked(v, updated, err) == [v |-> v, updated |-> updated, err |-> err]

\* the one element of a singleton set
Only(S) == CHOOSE x \in S : TRUE

\* a loop body's result w for element i, then the rest of the loop; an
\* exception in the body leaves the later elements as they were
ThenRest(w, rest, later) ==
    IF w.err THEN Walked(<<w.v>> \o later, w.updated, TRUE)
    ELSE Walked(<<w.v>> \o rest.v, w.updated \/ rest.updated, rest.err)

Keyed(key, w) == Walked(<<key, w.v>>, w.updated, w.err)
AsObj(w) == Walked(Obj(w.v), w.updated, w.err)
AsArr(w) == Walked(Arr(w.v), w.updated, w.err)
Flagged(w, hit) == Walked(w.v, w.updated \/ hit, w.err)

(***************************************************************************)
(* update_entity(data, table_map)                                          *)
(***************************************************************************)
RECURSIVE EntityWalk(_, _), EntityPairs(_, _, _), EntityItems(_, _, _),
          EntityList(_, _, _)

\* the "Entity" branch, mutated: follows the map until no key matches
RECURSIVE RenameEntityCascade(_, _)
RenameEntityCascade(name, table_map) ==
    IF name \in DOMAIN table_map /\ table_map[name] # name
    THEN RenameEntityCascade(table_map[name], table_map)
    ELSE name

\* the "Entity" branch, mutated: the new name is looked up once more
RenameEntityTwice(name, table_map) ==
    IF table_map[name] \in DOMAIN table_map THEN table_map[table_map[name]]
    ELSE table_map[name]

RenameEntity(name, table_map) == table_map[name]

\* if "name" in entity and entity["name"] in table_map
EntityNameHit(e, table_map) ==
    IsObj(e) /\ Has(e, "name") /\ IsStr(Get(e, "name"))
        /\ Get(e, "name")[2] \in DOMAIN table_map

RenameEntityName(e, table_map) ==
    IF EntityNameHit(e, table_map)
    THEN Put(e, "name", Str(RenameEntity(Get(e, "name")[2], table_map)))
    ELSE e

\* "name" in entity ... entity["name"] in table_map  raises on these
EntityElemRaises(e) ==
    \/ IsLit(e)                                              \* not iterable
    \/ IsObj(e) /\ Has(e, "name") /\ Unhashable(Get(e, "name"))
    \/ IsArr(e) /\ \E j \in 1..Len(e[2]) : e[2][j] = Str(<<"n", "a", "m", "e">>)

\* for entity in value, when value is not a list: a dict yields its keys,
\* a string its characters
EntitiesNotList(value) ==
    IF IsLit(value) THEN Walked(value, FALSE, TRUE)
    ELSE IF IsObj(value)
    THEN Walked(value, FALSE, \E j \in 1..Len(value[2]) : ContainsName(value[2][j][1]))
    ELSE Walked(value, FALSE, FALSE)

\* for entity in value: rename entity["name"], then traverse the entity
EntityList(items, i, table_map) ==
    IF i > Len(items) THEN Walked(<<>>, FALSE, FALSE)
    ELSE IF EntityElemRaises(items[i])
    THEN Walked(SubSeq(items, i, Len(items)), FALSE, TRUE)
    ELSE Only({ThenRest(Flagged(w, EntityNameHit(items[i], table_map)), rest,
                        SubSeq(items, i + 1, Len(items))) :
                 w \in {EntityWalk(RenameEntityName(items[i], table_map), table_map)},
                 rest \in {EntityList(items, i + 1, table_map)}})

\* the branches of  for key, value in data.items()
EntityBranch(key, value, table_map) ==
    IF key = "Entity" /\ IsStr(value) /\ value[2] \in DOMAIN table_map
    THEN Walked(Str(RenameEntity(value[2], table_map)), TRUE, FALSE)
    ELSE IF key = "Entity"
    THEN Walked(value, FALSE, Unhashable(value))     \* TypeError; no descent
    ELSE IF key = "entities" /\ IsArr(value)
    THEN AsArr(EntityList(value[2], 1, table_map))
    ELSE IF key = "entities" THEN EntitiesNotList(value)
    ELSE IF key = "expression" /\ IsStr(value)
    THEN Only({Walked(Str(e), e # value[2], FALSE) :
                 e \in {update_dax_expression(value[2], table_map, <<>>)}})
    ELSE EntityWalk(value, table_map)

EntityPairs(pairs, i, table_map) ==
    IF i > Len(pairs) THEN Walked(<<>>, FALSE, FALSE)
    ELSE Only({ThenRest(Keyed(pairs[i][1], w), rest, SubSeq(pairs, i + 1, Len(pairs))) :
                 w \in {EntityBranch(pairs[i][1], pairs[i][2], table_map)},
                 rest \in {EntityPairs(pairs, i + 1, table_map)}})

\* for item in data
EntityItems(items, i, table_map) ==
    IF i > Len(items) THEN Walked(<<>>, FALSE, FALSE)
    ELSE Only({ThenRest(w, rest, SubSeq(items, i + 1, Len(items))) :
                 w \in {EntityWalk(items[i], table_map)},
                 rest \in {EntityItems(items, i + 1, table_map)}})

\* traverse_and_update(data) of update_entity
EntityWalk(data, table_map) ==
    IF IsObj(data) THEN AsObj(EntityPairs(data[2], 1, table_map))
    ELSE IF IsArr(data) THEN AsArr(EntityItems(data[2], 1, table_map))
    ELSE Walked(data, FALSE, FALSE)

update_entity(data, table_map) == EntityWalk(data, table_map)

(***************************************************************************)
(* update_property(data, column_map)                                       *)
(***************************************************************************)
RECURSIVE PropertyWalk(_, _), PropertyPairs(_, _, _), PropertyItems(_, _, _)

\* the lookup key of a Column/Measure node, mutated: ignores the entity
\* and matches on the property alone
BindingKeyAnyEntity(entity, property, column_map) ==
    IF \E k \in DOMAIN column_map : k[2] = property
    THEN CHOOSE k \in DOMAIN column_map : k[2] = property
    ELSE <<entity, property>>

\* (entity, property), the key looked up in column_map
BindingKey(entity, property, column_map) == <<entity, property>>

\* value.get("Expression", {}).get("SourceRef", {}).get("Entity")
BindingEntity(value) ==
    Only({IF src.ok /\ IsObj(src.v) THEN GetOr(src.v, "Entity", Null) ELSE <<"err", <<>>>> :
            src \in {GetChain(value, <<"Expression", "SourceRef">>)}})

\* the branch  key in ["Column", "Measure"]
ColumnLookup(value, entity, property, column_map) ==
    IF entity[1] = "err" THEN Walked(value, FALSE, TRUE)
    ELSE IF Truthy(entity) /\ Truthy(property)
               /\ (Unhashable(entity) \/ Unhashable(property))
    THEN Walked(value, FALSE, TRUE)                  \* TypeError
    ELSE IF /\ IsStr(entity) /\ entity[2] # <<>>
            /\ IsStr(property) /\ property[2] # <<>>
            /\ BindingKey(entity[2], property[2], column_map) \in DOMAIN column_map
    THEN Walked(Put(value, "Property",
                    Str(column_map[BindingKey(entity[2], property[2], column_map)])),
                TRUE, FALSE)
    ELSE Walked(value, FALSE, FALSE)

ColumnBranch(value, column_map) ==
    IF ~IsObj(value) THEN Walked(value, FALSE, TRUE)    \* no .get: AttributeError
    ELSE ColumnLookup(value, BindingEntity(value), GetOr(value, "Property", Null),
                      column_map)

\* one condition of filter["Where"]: the Property at
\* Condition.Not.Expression.In.Expressions[0].Column
FilterPath == <<"Condition", "Not", "Expression", "In">>

\* condition.get("Condition", {})...get("Expressions", [{}])
WhereExpressions(condition) ==
    Only({IF inn.ok /\ IsObj(inn.v)
          THEN GetOr(inn.v, "Expressions", Arr(<<EmptyObj>>)) ELSE Null :
            inn \in {GetChain(condition, FilterPath)}})

WhereLookup(condition, exprs, first, column, property, from_entity, column_map) ==
    IF ~IsObj(column) THEN Walked(condition, FALSE, TRUE)
    ELSE IF /\ IsStr(property) /\ property[2] # <<>>
            /\ <<from_entity, property[2]>> \in DOMAIN column_map
    THEN Walked(SetChain(condition, FilterPath \o <<"Expressions">>,
                    Arr(<<Put(first, "Column",
                              Put(column, "Property",
                                  Str(column_map[<<from_entity, property[2]>>])))>>
                        \o Tail(exprs[2]))),
                TRUE, FALSE)
    ELSE Walked(condition, FALSE, FALSE)

WhereCondition(condition, from_entity, column_map) ==
    Only({WhereLookup(condition, exprs, first, column,
                      IF IsObj(column) THEN GetOr(column, "Property", Null) ELSE Null,
                      from_entity, column_map) :
            exprs \in {WhereExpressions(condition)},
            first \in {IF IsArr(WhereExpressions(condition))
                          /\ WhereExpressions(condition)[2] # <<>>
                       THEN WhereExpressions(condition)[2][1] ELSE Null},
            column \in {Only({IF IsObj(f) THEN GetOr(f, "Column", EmptyObj) ELSE Null :
                          f \in {IF IsArr(WhereExpressions(condition))
                                    /\ WhereExpressions(condition)[2] # <<>>
                                 THEN WhereExpressions(condition)[2][1] ELSE Null}})}})

RECURSIVE WhereList(_, _, _, _)
WhereList(items, i, from_entity, column_map) ==
    IF i > Len(items) THEN Walked(<<>>, FALSE, FALSE)
    ELSE Only({ThenRest(w, rest, SubSeq(items, i + 1, Len(items))) :
                 w \in {WhereCondition(items[i], from_entity, column_map)},
                 rest \in {WhereList(items, i + 1, from_entity, column_map)}})

\* from_entity = value["From"][0]["Entity"] raises on these shapes
FilterRaises(value) ==
    \/ ~IsArr(Get(value, "From")) \/ Get(value, "From")[2] = <<>>     \* IndexError
    \/ ~IsObj(Get(value, "From")[2][1])
    \/ ~Has(Get(value, "From")[2][1], "Entity")                       \* KeyError
    \/ ~IsStr(Get(Get(value, "From")[2][1], "Entity"))
    \/ ~IsArr(Get(value, "Where"))

\* the branch  key == "filter"
FilterBranch(value, column_map) ==
    IF IsLit(value) THEN Walked(value, FALSE, TRUE)  \* "From" in None
    ELSE IF ~IsObj(value) \/ ~Has(value, "From") \/ ~Has(value, "Where")
    THEN Walked(value, FALSE, FALSE)
    ELSE IF FilterRaises(value) THEN Walked(value, FALSE, TRUE)
    ELSE Only({Walked(Put(value, "Where", Arr(l.v)), l.updated, l.err) :
                 l \in {WhereList(Get(value, "Where")[2], 1,
                                  Get(Get(value, "From")[2][1], "Entity")[2],
                                  column_map)}})

\* the branches of  for key, value in data.items()
PropertyBranch(key, value, column_map) ==
    IF key \in {"Column", "Measure"} THEN ColumnBranch(value, column_map)
    ELSE IF key = "expression" /\ IsStr(value)
    THEN Only({Walked(Str(e), e # value[2], FALSE) :
                 e \in {update_dax_expression(value[2], <<>>, column_map)}})
    ELSE IF key = "filter" THEN FilterBranch(value, column_map)
    ELSE PropertyWalk(value, column_map)

PropertyPairs(pairs, i, column_map) ==
    IF i > Len(pairs) THEN Walked(<<>>, FALSE, FALSE)
    ELSE Only({ThenRest(Keyed(pairs[i][1], w), rest, SubSeq(pairs, i + 1, Len(pairs))) :
                 w \in {PropertyBranch(pairs[i][1], pairs[i][2], column_map)},
                 rest \in {PropertyPairs(pairs, i + 1, column_map)}})

\* for item in data
PropertyItems(items, i, column_map) ==
    IF i > Len(items) THEN Walked(<<>>, FALSE, FALSE)
    ELSE Only({ThenRest(w, rest, SubSeq(items, i + 1, Len(items))) :
                 w \in {PropertyWalk(items[i], column_map)},
                 rest \in {PropertyItems(items, i + 1, column_map)}})

\* traverse_and_update(data) of update_property
PropertyWalk(data, column_map) ==
    IF IsObj(data) THEN AsObj(PropertyPairs(data[2], 1, column_map))
    ELSE IF IsArr(data) THEN AsArr(PropertyItems(data[2], 1, column_map))
    ELSE Walked(data, FALSE, FALSE)

update_property(data, column_map) == PropertyWalk(data, column_map)

(***************************************************************************)
(* Names and documents used as inputs                                      *)
(***************************************************************************)
NoName == <<>>
tA == <<"A">>
tB == <<"B">>
tC == <<"C">>
tAx == <<"A", SPACE, "x">>      \* a table name with a space
tBx == <<"B", SPACE, "x">>
tBtab == <<"B", TAB, "x">>      \* a table name with a tab
cc == <<"c">>
cd == <<"d">>
ccx == <<"c", SPACE, "c">>      \* a column name with a space
ce == <<"c", "U+00E9">>         \* a column name with a letter outside A-Z, a-z

\* {key: {"Expression": {"SourceRef": {"Entity": e}}, "Property": p}}
Binding(key, e, p) ==
    <<key, Obj(<< <<"Expression", Obj(<< <<"SourceRef",
                        Obj(<< <<"Entity", Str(e)>> >>)>> >>)>>,
                  <<"Property", Str(p)>> >>)>>

BindingKinds == {"Column", "Measure"}

\* a binding at the top of the document, below an object, in a list
PlainDoc(key, e, p) == Obj(<<Binding(key, e, p)>>)
NestedDoc(key, e, p) == Obj(<< <<"field", Obj(<<Binding(key, e, p)>>)>> >>)
ListDoc(key, e, p) ==
    Obj(<< <<"name", Str(<<"x">>)>>,
           <<"select", Arr(<<Obj(<<Binding(key, e, p)>>), Obj(<<Binding(key, e, p)>>)>>)>> >>)
BindingShapes == {"plain", "nested", "list"}
BindingDoc(shape, key, e, p) ==
    CASE shape = "plain" -> PlainDoc(key, e, p)
      [] shape = "nested" -> NestedDoc(key, e, p)
      [] shape = "list" -> ListDoc(key, e, p)

\* a filter with From and Where, as written by Power BI
FilterDoc(e, p) ==
    Obj(<< <<"filter", Obj(<<
        <<"From", Arr(<<Obj(<< <<"Name", Str(<<"x">>)>>, <<"Entity", Str(e)>> >>)>>)>>,
        <<"Where", Arr(<<Obj(<< <<"Condition", Obj(<< <<"Not", Obj(<< <<"Expression",
            Obj(<< <<"In", Obj(<< <<"Expressions",
                Arr(<<Obj(<< <<"Column", Obj(<< <<"Property", Str(p)>> >>)>> >>)>>)>> >>)>>
            >>)>> >>)>> >>)>> >>)>>)>> >>)>> >>)

\* valid JSON of an unexpected shape
FilterEmptyFromDoc == Obj(<< <<"filter", Obj(<< <<"From", Arr(<<>>)>>, <<"Where", Arr(<<>>)>> >>)>> >>)
ColumnNotObjectDoc == Obj(<< <<"Column", Str(cc)>> >>)

\* a binding below a "filter" key whose value lacks From and Where, below a
\* "filter" key whose value has both, and inside the value of another binding
FilterHoldingDoc(key, e, p) == Obj(<< <<"filter", Obj(<<Binding(key, e, p)>>)>> >>)
FilterFromWhereHoldingDoc(key, e, p) ==
    Obj(<< <<"filter", Obj(<<
        <<"From", Arr(<<Obj(<< <<"Name", Str(<<"x">>)>>, <<"Entity", Str(e)>> >>)>>)>>,
        <<"Where", Arr(<<>>)>>,
        <<"Target", Obj(<<Binding(key, e, p)>>)>> >>)>> >>)
BindingInBindingDoc(key, e, p) ==
    Obj(<< <<"Column", Obj(<<
        <<"Expression", Obj(<< <<"SourceRef", Obj(<< <<"Entity", Str(tC)>> >>)>> >>)>>,
        <<"Property", Str(cd)>>,
        <<"Arg", Obj(<<Binding(key, e, p)>>)>> >>)>> >>)
DeepDocs ==
    {FilterHoldingDoc(k, tA, p) : k \in BindingKinds, p \in {cc, cd}}
        \cup {FilterFromWhereHoldingDoc(k, tA, p) : k \in BindingKinds, p \in {cc, cd}}
        \cup {BindingInBindingDoc(k, tA, p) : k \in BindingKinds, p \in {cc, cd}}

\* reportExtensions.json: entities with measures
EntitiesDoc(e, expr) ==
    Obj(<< <<"entities", Arr(<<Obj(<< <<"name", Str(e)>>,
        <<"measures", Arr(<<Obj(<< <<"name", Str(<<"x">>)>>,
                                   <<"expression", Str(expr)>> >>)>>)>> >>)>>)>> >>)

ExprDoc(expr) == Obj(<< <<"expression", Str(expr)>> >>)
EntityDoc(e) == Obj(<< <<"Entity", Str(e)>> >>)
UnrelatedDoc == Obj(<< <<"name", Str(<<"x">>)>>, <<"visibility", True>> >>)

\* e[c] and 'e'[c]
BareRef(e, c) == e \o <<LBR>> \o c \o <<RBR>>
QuotedRef(e, c) == <<QUOTE>> \o e \o <<QUOTE, LBR>> \o c \o <<RBR>>

\* a visual with a binding of column c of table e and an expression string
\* that refers to the same column as e[c] (q empty) or 'e'[c]
MixedDoc(q, e, c) ==
    Obj(<< Binding("Column", e, c),
           <<"expression", Str(q \o e \o q \o <<LBR>> \o c \o <<RBR>>)>> >>)

\* the content of a file that is not JSON
Malformed == <<"bad", <<>>>>

\* bytes that are not UTF-8: f.read() raises UnicodeDecodeError
Undecodable == <<"bytes", <<>>>>

\* a file opened with mode 'w' (truncated), and one that holds the first
\* part of a document only
Truncated == <<"empty", <<>>>>
Partial == <<"partial", <<>>>>

(***************************************************************************)
(* The state                                                               *)
(***************************************************************************)
VARIABLES
    \* batch_update_pbir_project
    csv,            \* the CSV file: [header, rows]
    bpc,            \* where the batch run is
    mappings,       \* the rows load_csv_mapping accepted
    next_row,       \* index of the row the build loop handles next
    table_map,
    column_map,
    disk0,          \* the .json files before the run
    disk,           \* the .json files
    visited,        \* files update_pbir_component was called on
    written,        \* files update_pbir_component wrote
    pending,        \* the write of a file that is under way
    reported,       \* files reported as unparsable or with an I/O error
    \* _evaluate_expression_rule
    rule,           \* the rule and what its expression does for each unit
    verdict,        \* the evaluation: position, violations, result
    \* one call of update_dax_expression / update_entity / update_property
    call,
    ret,
    \* sanitize_powerbi_report
    tree,           \* the report folder
    san,            \* the call: its arguments, position and runs
    \* the global console and the requests that capture its output
    _broadcast_queues,  \* ConsoleUtils._broadcast_queues: a list of queues
    queue,          \* per request: the messages in its Queue
    thread,         \* per request: the thread that runs sanitize_powerbi_report
    gen,            \* per request: where generate() is
    events          \* per request: the events yielded to the client

batchVars == <<csv, bpc, mappings, next_row, table_map, column_map, disk0, disk,
               visited, written>>
fnVars == <<call, ret>>
sanVars == <<tree, san>>
ioVars == <<pending, reported>>
ruleVars == <<rule, verdict>>
streamVars == <<_broadcast_queues, queue, thread, gen, events>>
vars == <<batchVars, fnVars, sanVars, ioVars, ruleVars, streamVars>>

(***************************************************************************)
(* The report tree the sanitizer works on.                                 *)
(*   pageOrder, activePageName    definition/pages/pages.json              *)
(*   pageDirs                     the folders under definition/pages       *)
(*   visualsDirs                  the pages that have a visuals folder     *)
(*   visuals                      pages/<page>/visuals/<name>/visual.json  *)
(*   pageJson                     pages/<page>/page.json                   *)
(*   bookmarksDir, bookmarksJson, bookmarkFiles    definition/bookmarks    *)
(*   publicCustomVisuals          definition/report.json                   *)
(*   measures                     definition/reportExtensions.json         *)
(***************************************************************************)
NoFiles == <<>>

\* a visual.json: its page, "isHidden", visual.visualType, the bookmarkGroup
\* literals of visual.objects.bookmarks, the bookmark literals of
\* visual.visualContainerObjects.visualLink, the measures its bindings use,
\* and the rest of the document
Visual(page, hidden, vtype, groups, links, fields, body) ==
    [page |-> page, isHidden |-> hidden, visualType |-> vtype, groups |-> groups,
     links |-> links, fields |-> fields, body |-> body]

PlainVisual(page) == Visual(page, FALSE, "card", <<>>, <<>>, {}, EmptyObj)

\* a page.json
PageDoc(binding, visibility, interactions) ==
    [bindingType |-> binding, visibility |-> visibility,
     visualInteractions |-> interactions]

Interaction(source, target) == [source |-> source, target |-> target]

\* an item of bookmarks.json; a group has children
Item(name) == [name |-> name, hasChildren |-> FALSE, children |-> <<>>]
Group(name, children) == [name |-> name, hasChildren |-> TRUE, children |-> children]

\* a <name>.bookmark.json: the visualContainers of its section, each with
\* or without a "display" key in singleVisual
BookmarkFile(containers) == [containers |-> containers]
Container(display) == [display |-> display]

BaseTree ==
    [pageOrder |-> <<"P1">>,
     activePageName |-> "P1",
     pageDirs |-> {"P1"},
     visualsDirs |-> {"P1"},
     visuals |-> ("v1" :> PlainVisual("P1")),
     pageJson |-> ("P1" :> PageDoc("ReportSection", "Visible", <<>>)),
     bookmarksDir |-> FALSE,
     bookmarksJson |-> [exists |-> FALSE, items |-> <<>>],
     bookmarkFiles |-> NoFiles,
     publicCustomVisuals |-> [present |-> FALSE, list |-> <<>>],
     measures |-> NoFiles]

\* f without the keys outside keep
Restrict(f, keep) == [x \in (DOMAIN f) \cap keep |-> f[x]]

Range(s) == {s[i] : i \in DOMAIN s}

RECURSIVE Filter(_, _)
Filter(s, keep) ==
    IF s = <<>> THEN <<>>
    ELSE IF Head(s) \in keep THEN <<Head(s)>> \o Filter(Tail(s), keep)
    ELSE Filter(Tail(s), keep)

\* what an action did: the tree afterwards, whether it raised, and what it
\* decided to change
Outcome(t, err, decided) == [tree |-> t, err |-> err, decided |-> decided]

(***************************************************************************)
(* remove_unused_bookmarks                                                 *)
(***************************************************************************)
\* _check_visual: a bookmarkNavigator is asked for its bookmarkGroup
\* literals only, every other visual for its visualLink literals
CheckVisualUsesBookmark(v, bookmark_name) ==
    IF v.visualType = "bookmarkNavigator"
    THEN \E i \in DOMAIN v.groups : v.groups[i] = bookmark_name
    ELSE \E i \in DOMAIN v.links : v.links[i] = bookmark_name

_is_bookmark_used(t, bookmark_name) ==
    \E v \in DOMAIN t.visuals : CheckVisualUsesBookmark(t.visuals[v], bookmark_name)

\* the loop without  item["children"] = used_children
KeptItemUnpruned(t, item) ==
    IF _is_bookmark_used(t, item.name) THEN <<item>>
    ELSE IF item.hasChildren
              /\ \E i \in DOMAIN item.children : _is_bookmark_used(t, item.children[i])
    THEN <<item>>
    ELSE <<>>

\* one pass of  for item in bookmarks_data["items"]
KeptItem(t, item) ==
    IF _is_bookmark_used(t, item.name) THEN <<item>>
    ELSE IF item.hasChildren
              /\ \E i \in DOMAIN item.children : _is_bookmark_used(t, item.children[i])
    THEN <<Group(item.name,
                 Filter(item.children,
                        {c \in Range(item.children) : _is_bookmark_used(t, c)}))>>
    ELSE <<>>

RECURSIVE NewItems(_, _)
NewItems(t, items) ==
    IF items = <<>> THEN <<>>
    ELSE KeptItem(t, Head(items)) \o NewItems(t, Tail(items))

\* used_bookmarks
UsedBookmarks(t, items) ==
    UNION {IF _is_bookmark_used(t, items[i].name)
           THEN {items[i].name} \cup Range(items[i].children)
           ELSE IF KeptItem(t, items[i]) # <<>>
           THEN {items[i].name} \cup Range(KeptItem(t, items[i])[1].children)
           ELSE {} : i \in DOMAIN items}

remove_unused_bookmarks(t) ==
    IF ~t.bookmarksJson.exists      \* _load_json gives {}: ["items"] is a KeyError
    THEN Outcome(t, TRUE, {})
    ELSE LET items == t.bookmarksJson.items
             used == UsedBookmarks(t, items)
             new_items == NewItems(t, items)
             decided == {items[j].name : j \in {i \in DOMAIN items :
                                                   items[i] \notin Range(new_items)}}
                            \cup (DOMAIN t.bookmarkFiles \ used)
         IN  IF new_items = <<>>                 \* shutil.rmtree(bookmarks_dir)
             THEN Outcome([t EXCEPT !.bookmarksDir = FALSE,
                                    !.bookmarksJson = [exists |-> FALSE, items |-> <<>>],
                                    !.bookmarkFiles = NoFiles],
                          FALSE, decided \cup {"bookmarks"})
             ELSE Outcome([t EXCEPT !.bookmarksJson.items = new_items,
                                    !.bookmarkFiles = Restrict(t.bookmarkFiles, used)],
                          FALSE, decided)

(***************************************************************************)
(* remove_unused_custom_visuals                                            *)
(***************************************************************************)
\* the orders list(used_visuals) may give
Orders(S) == {s \in UNION {[1..n -> S] : n \in {Cardinality(S)}} : Range(s) = S}

\* the outcomes of remove_unused_custom_visuals: the order of a list built
\* from a set is not fixed
remove_unused_custom_visuals(t) ==
    LET custom_visuals == Range(t.publicCustomVisuals.list)
        used_visuals == {t.visuals[v].visualType : v \in DOMAIN t.visuals} \cap custom_visuals
        unused_visuals == custom_visuals \ used_visuals
    IN  IF custom_visuals = {} \/ unused_visuals = {}
        THEN {Outcome(t, FALSE, {})}
        ELSE IF used_visuals # {}
        THEN {Outcome([t EXCEPT !.publicCustomVisuals.list = l], FALSE, unused_visuals) :
                 l \in Orders(used_visuals)}
        \* report_data[key] = report_data.pop(key): the key gets its list back
        ELSE {Outcome(t, FALSE, unused_visuals)}

(***************************************************************************)
(* disable_show_items_with_no_data                                         *)
(***************************************************************************)
\* _remove_show_all(data): the document afterwards and the returned flag.
\* any() stops at the first value that returns True.
RECURSIVE RemoveShowAll(_), RemoveShowAllPairs(_, _), RemoveShowAllItems(_, _)

RemoveShowAllPairs(pairs, i) ==
    IF i > Len(pairs) THEN [v |-> <<>>, found |-> FALSE]
    ELSE Only({IF w.found
               THEN [v |-> <<<<pairs[i][1], w.v>>>> \o SubSeq(pairs, i + 1, Len(pairs)),
                     found |-> TRUE]
               ELSE Only({[v |-> <<pairs[i]>> \o rest.v, found |-> rest.found] :
                            rest \in {RemoveShowAllPairs(pairs, i + 1)}}) :
                 w \in {RemoveShowAll(pairs[i][2])}})

RemoveShowAllItems(items, i) ==
    IF i > Len(items) THEN [v |-> <<>>, found |-> FALSE]
    ELSE Only({IF w.found
               THEN [v |-> <<w.v>> \o SubSeq(items, i + 1, Len(items)), found |-> TRUE]
               ELSE Only({[v |-> <<items[i]>> \o rest.v, found |-> rest.found] :
                            rest \in {RemoveShowAllItems(items, i + 1)}}) :
                 w \in {RemoveShowAll(items[i])}})

RemoveShowAll(data) ==
    IF IsObj(data)
    THEN IF Has(data, "showAll")
         THEN [v |-> Del(data, "showAll"), found |-> TRUE]
         ELSE Only({[v |-> Obj(r.v), found |-> r.found] :
                      r \in {RemoveShowAllPairs(data[2], 1)}})
    ELSE IF IsArr(data)
    THEN Only({[v |-> Arr(r.v), found |-> r.found] :
                 r \in {RemoveShowAllItems(data[2], 1)}})
    ELSE [v |-> data, found |-> FALSE]

_remove_show_all(data) == RemoveShowAll(data)

disable_show_items_with_no_data(t) ==
    Outcome([t EXCEPT !.visuals =
                [v \in DOMAIN t.visuals |->
                    [t.visuals[v] EXCEPT !.body = _remove_show_all(t.visuals[v].body).v]]],
            FALSE,
            {v \in DOMAIN t.visuals : _remove_show_all(t.visuals[v].body).found})

(***************************************************************************)
(* hide_tooltip_drillthrough_pages, set_first_page_as_active               *)
(***************************************************************************)
\* _check_page
NeedsHiding(page_data) ==
    /\ page_data.bindingType \in {"Tooltip", "Drillthrough"}
    /\ page_data.visibility # "HiddenInViewMode"

hide_tooltip_drillthrough_pages(t) ==
    Outcome([t EXCEPT !.pageJson =
                [p \in DOMAIN t.pageJson |->
                    IF NeedsHiding(t.pageJson[p])
                    THEN [t.pageJson[p] EXCEPT !.visibility = "HiddenInViewMode"]
                    ELSE t.pageJson[p]]],
            FALSE,
            {p \in DOMAIN t.pageJson : NeedsHiding(t.pageJson[p])})

set_first_page_as_active(t) ==
    IF t.pageOrder = <<>> THEN Outcome(t, TRUE, {})          \* page_order[0]: IndexError
    ELSE IF t.pageOrder[1] # t.activePageName
    THEN Outcome([t EXCEPT !.activePageName = t.pageOrder[1]], FALSE, {t.pageOrder[1]})
    ELSE Outcome(t, FALSE, {})

(***************************************************************************)
(* remove_empty_pages                                                      *)
(***************************************************************************)
\* os.path.exists(<page>/visuals) and os.listdir(<page>/visuals)
HasVisuals(t, page) ==
    page \in t.visualsDirs /\ \E v \in DOMAIN t.visuals : t.visuals[v].page = page

\* rmtree of the empty page folders only: a folder with visuals stays
RemoveListedPageFolders(t, keep) ==
    [t EXCEPT !.pageDirs = t.pageDirs \cap (keep \cup {p \in t.pageDirs : HasVisuals(t, p)}),
              !.visualsDirs = t.visualsDirs \cap (keep \cup {p \in t.pageDirs : HasVisuals(t, p)}),
              !.visuals = Restrict(t.visuals,
                                   {v \in DOMAIN t.visuals :
                                       t.visuals[v].page \in keep \cup {p \in t.pageDirs : HasVisuals(t, p)}}),
              !.pageJson = Restrict(t.pageJson, keep \cup {p \in t.pageDirs : HasVisuals(t, p)})]

\* shutil.rmtree of the page folders outside keep
RemovePageFolders(t, keep) ==
    [t EXCEPT !.pageDirs = t.pageDirs \cap keep,
              !.visualsDirs = t.visualsDirs \cap keep,
              !.visuals = Restrict(t.visuals,
                                   {v \in DOMAIN t.visuals : t.visuals[v].page \in keep}),
              !.pageJson = Restrict(t.pageJson, keep)]

\* the new pages.json, mutated: activePageName is left as it is
NewPagesJsonKeepsActive(t, non_empty_pages) ==
    [t EXCEPT !.pageOrder = IF non_empty_pages # <<>> THEN non_empty_pages
                            ELSE <<t.pageOrder[1]>>]

NewPagesJson(t, non_empty_pages) ==
    IF non_empty_pages # <<>>
    THEN [t EXCEPT !.pageOrder = non_empty_pages,
                   !.activePageName = IF t.activePageName \in Range(non_empty_pages)
                                      THEN t.activePageName ELSE non_empty_pages[1]]
    ELSE [t EXCEPT !.pageOrder = <<t.pageOrder[1]>>,
                   !.activePageName = t.pageOrder[1]]

remove_empty_pages(t) ==
    LET non_empty_pages == Filter(t.pageOrder, {p \in Range(t.pageOrder) : HasVisuals(t, p)})
    IN  IF non_empty_pages = <<>> /\ t.pageOrder = <<>>
        THEN Outcome(t, TRUE, {})                            \* page_order[0]: IndexError
        ELSE Outcome(RemovePageFolders(NewPagesJson(t, non_empty_pages),
                                       Range(NewPagesJson(t, non_empty_pages).pageOrder)),
                     FALSE,
                     (t.pageDirs \cup Range(t.pageOrder))
                         \ Range(NewPagesJson(t, non_empty_pages).pageOrder))

(***************************************************************************)
(* remove_hidden_visuals_never_shown                                       *)
(***************************************************************************)
\* hidden_visuals: the names found by _find_hidden_visuals
HiddenVisuals(t) == {v \in DOMAIN t.visuals : t.visuals[v].isHidden}

\* _check_bookmark, mutated: a container counts with or without "display"
ShownVisualsAnyContainer(t) ==
    {v \in HiddenVisuals(t) :
        \E b \in DOMAIN t.bookmarkFiles : v \in DOMAIN t.bookmarkFiles[b].containers}

\* _check_bookmark: hidden visuals with a container that has no "display"
ShownVisuals(t) ==
    {v \in HiddenVisuals(t) :
        \E b \in DOMAIN t.bookmarkFiles :
            /\ v \in DOMAIN t.bookmarkFiles[b].containers
            /\ ~t.bookmarkFiles[b].containers[v].display}

AlwaysHidden(t) == HiddenVisuals(t) \ ShownVisuals(t)

\* the folder _find_hidden_visuals returns for a visual, as the set of
\* visuals below it: dirname(dirname(.../visuals/<name>/visual.json)) is the
\* visuals folder of the page
FolderOf(t, name) == {v \in DOMAIN t.visuals : t.visuals[v].page = t.visuals[name].page}

\* _update_bookmark
UpdateBookmark(file, always_hidden) ==
    [file EXCEPT !.containers = Restrict(file.containers,
                                         DOMAIN file.containers \ always_hidden)]

remove_hidden_visuals_never_shown(t) ==
    LET always_hidden == AlwaysHidden(t)
        removed == UNION {FolderOf(t, v) : v \in always_hidden}
    IN  Outcome([t EXCEPT
                    !.visualsDirs = t.visualsDirs \ {t.visuals[v].page : v \in always_hidden},
                    !.visuals = Restrict(t.visuals, DOMAIN t.visuals \ removed),
                    !.bookmarkFiles = [b \in DOMAIN t.bookmarkFiles |->
                                          UpdateBookmark(t.bookmarkFiles[b], always_hidden)]],
                FALSE, always_hidden)

\* no sanitize call
SanIdle ==
    /\ tree = BaseTree
    /\ san = [actions |-> <<>>, keywords |-> {}, pc |-> 1, status |-> "idle",
              runs |-> <<>>, warned |-> <<>>]

(***************************************************************************)
(* load_csv_mapping and the mapping build of batch_update_pbir_project     *)
(***************************************************************************)
MaxRows == 2

ExpectedColumns == {"old_tbl", "old_col", "new_tbl", "new_col"}

Row(ot, oc, nt, nc) == [old_tbl |-> ot, old_col |-> oc, new_tbl |-> nt, new_col |-> nc]

\* the rows a CSV file may hold, accepted or not
RowSet == {Row(ot, oc, nt, nc) : ot \in {tA, tB}, oc \in {NoName, cc},
                                 nt \in {NoName, tB, tC}, nc \in {NoName, cd}}
RowSeqs == UNION {[1..n -> RowSet] : n \in 0..MaxRows}

\* if old_tbl and (new_tbl or (old_col and new_col))
Accepted(row) ==
    row.old_tbl # NoName /\ (row.new_tbl # NoName \/ (row.old_col # NoName /\ row.new_col # NoName))

RECURSIVE AcceptedRows(_)
AcceptedRows(rows) ==
    IF rows = <<>> THEN <<>>
    ELSE IF Accepted(Head(rows)) THEN <<Head(rows)>> \o AcceptedRows(Tail(rows))
    ELSE AcceptedRows(Tail(rows))

\* the header name old_tbl with a byte order mark in front of it, as the
\* reader gives it for a file that starts with two marks (utf-8-sig takes
\* the first one off)
BomOldTbl == "BOM+old_tbl"

\* name.lstrip(BOM)
StripBom(name) == IF name = BomOldTbl THEN "old_tbl" ELSE name

\* fieldnames
Fieldnames(file) == {StripBom(name) : name \in file.header}

\* the check with any() in the place of all()
HeaderOkAny(file) == ExpectedColumns \cap Fieldnames(file) # {}

\* if not all(col in fieldnames for col in expected_columns): raise ValueError
HeaderOk(file) == ExpectedColumns \subseteq Fieldnames(file)

\* row['old_tbl'], ..., row['new_col'] of the first row: a KeyError unless
\* the reader's own field names hold the four columns
RowKeysOk(file) == file.rows = <<>> \/ ExpectedColumns \subseteq file.header

load_csv_mapping(file) == AcceptedRows(file.rows)

\* dict[key] = value
MapPut(m, k, v) == [x \in (DOMAIN m) \cup {k} |-> IF x = k THEN v ELSE m[x]]

\* effective_tbl, mutated: the column key keeps the old table name
EffectiveTblOld(tm, old_tbl) == old_tbl

\* effective_tbl = table_map.get(old_tbl, old_tbl)
EffectiveTbl(tm, old_tbl) == IF old_tbl \in DOMAIN tm THEN tm[old_tbl] ELSE old_tbl

\* one iteration of  for row in mappings
BuildTableMap(tm, row) ==
    IF row.new_tbl # NoName /\ row.new_tbl # row.old_tbl
    THEN MapPut(tm, row.old_tbl, row.new_tbl) ELSE tm

BuildColumnMap(tm1, cm, row) ==
    IF row.old_col # NoName /\ row.new_col # NoName
    THEN MapPut(cm, <<EffectiveTbl(tm1, row.old_tbl), row.old_col>>, row.new_col)
    ELSE cm

(***************************************************************************)
(* update_pbir_component(file_path, table_map, column_map): the file's     *)
(* content afterwards, whether it was written, and whether an exception    *)
(* other than JSONDecodeError / IOError left the function                  *)
(***************************************************************************)
ComponentResult(content, e, p) ==
    IF e.err \/ p.err
    THEN [content |-> content, wrote |-> FALSE, raised |-> TRUE]
    ELSE IF e.updated \/ p.updated
    THEN [content |-> p.v, wrote |-> TRUE, raised |-> FALSE]
    ELSE [content |-> content, wrote |-> FALSE, raised |-> FALSE]

\* if table_map: entity_updated = update_entity(data, table_map)
EntityStep(content, tm) ==
    IF MapGiven(tm) THEN update_entity(content, tm) ELSE Walked(content, FALSE, FALSE)

\* if column_map: property_updated = update_property(data, column_map)
PropertyStep(e, cm) ==
    IF e.err \/ ~MapGiven(cm) THEN Walked(e.v, FALSE, FALSE)
    ELSE update_property(e.v, cm)

update_pbir_component(content, tm, cm) ==
    IF content \in {Malformed, Truncated, Partial}      \* except json.JSONDecodeError
    THEN [content |-> content, wrote |-> FALSE, raised |-> FALSE]
    ELSE IF content = Undecodable        \* a ValueError no except clause names
    THEN [content |-> content, wrote |-> FALSE, raised |-> TRUE]
    ELSE Only({ComponentResult(content, e, p) :
                 e \in {EntityStep(content, tm)},
                 p \in {PropertyStep(EntityStep(content, tm), cm)}})

(***************************************************************************)
(* batch_update_pbir_project(directory_path, csv_path)                     *)
(***************************************************************************)
Files == {"report.json", "visual.json"}

\* what the files of the project may hold before the run
SubjectDocs ==
    {BindingDoc(sh, k, tA, cc) : sh \in BindingShapes, k \in BindingKinds}
        \cup {FilterDoc(tA, cc), EntitiesDoc(tA, BareRef(tA, cc)), UnrelatedDoc}
OtherDocs == {UnrelatedDoc, EntityDoc(tB), Malformed, FilterEmptyFromDoc, ColumnNotObjectDoc}
DiskSet == {d \in [Files -> SubjectDocs \cup OtherDocs] :
               \/ d["report.json"] = UnrelatedDoc /\ d["visual.json"] \in SubjectDocs
               \/ d["report.json"] \in OtherDocs
                    /\ d["visual.json"] = BindingDoc("nested", "Column", tA, cc)}

\* no rule is under evaluation
NoRule == [scope |-> "none", outcomes |-> <<>>]
NoVerdict == [unit |-> 1, violations |-> <<>>, status |-> "idle", passed |-> FALSE]

RulesIdle == rule = NoRule /\ verdict = NoVerdict

\* the requests that capture the console's output, and how many messages
\* the run of a request prints at most
Runs == {1, 2}
MaxMsgs == 2
NoThread == [state |-> "unstarted", sent |-> 0, i |-> 0]

\* no request has been received
StreamIdle ==
    /\ _broadcast_queues = <<>>
    /\ queue = [r \in Runs |-> <<>>]
    /\ thread = [r \in Runs |-> NoThread]
    /\ gen = [r \in Runs |-> "idle"]
    /\ events = [r \in Runs |-> <<>>]

\* no file is open for writing
NoWrite == [file |-> "none", content |-> <<>>]

IdleCall == [fn |-> "none", expr |-> <<>>, doc |-> <<>>, tm |-> <<>>, cm |-> <<>>]
Pending == [done |-> FALSE, v |-> <<>>, updated |-> FALSE, err |-> FALSE]

\* headers that lack new_col, with and without a marked name, and a full
\* header with a marked name
OddHeaders ==
    {ExpectedColumns \ {"new_col"},
     (ExpectedColumns \ {"new_col", "old_tbl"}) \cup {BomOldTbl},
     (ExpectedColumns \ {"old_tbl"}) \cup {BomOldTbl}}

BatchInit ==
    /\ csv \in [header : {ExpectedColumns}, rows : RowSeqs]
                \cup [header : OddHeaders, rows : {<<>>} \cup [1..1 -> RowSet]]
    /\ bpc = "start"
    /\ mappings = <<>>
    /\ next_row = 1
    /\ table_map = <<>>
    /\ column_map = <<>>
    /\ disk0 \in DiskSet
    /\ disk = disk0
    /\ visited = {}
    /\ written = {}
    /\ call = IdleCall
    /\ ret = Pending
    /\ SanIdle
    /\ pending = NoWrite
    /\ reported = {}
    /\ RulesIdle
    /\ StreamIdle

\* mappings = load_csv_mapping(csv_path); a ValueError ends the run in the
\* outer except clause
LoadCsv ==
    /\ bpc = "start"
    /\ IF HeaderOk(csv) /\ RowKeysOk(csv)
       THEN mappings' = load_csv_mapping(csv) /\ bpc' = "build"
       ELSE mappings' = mappings /\ bpc' = "failed"
    /\ UNCHANGED <<csv, next_row, table_map, column_map, disk0, disk, visited, written>>
    /\ UNCHANGED <<fnVars, sanVars, ioVars, ruleVars, streamVars>>

\* for row in mappings: ...
BuildRow ==
    /\ bpc = "build"
    /\ next_row <= Len(mappings)
    /\ LET row == mappings[next_row]
           tm1 == BuildTableMap(table_map, row)
       IN  /\ table_map' = tm1
           /\ column_map' = BuildColumnMap(tm1, column_map, row)
    /\ next_row' = next_row + 1
    /\ UNCHANGED <<csv, bpc, mappings, disk0, disk, visited, written>>
    /\ UNCHANGED <<fnVars, sanVars, ioVars, ruleVars, streamVars>>

\* the loop is over: os.walk starts
StartWalk ==
    /\ bpc = "build"
    /\ next_row > Len(mappings)
    /\ bpc' = "walk"
    /\ UNCHANGED <<csv, mappings, next_row, table_map, column_map, disk0, disk,
                   visited, written>>
    /\ UNCHANGED <<fnVars, sanVars, ioVars, ruleVars, streamVars>>

\* update_pbir_component(file_path, table_map, column_map) for the next
\* file os.walk yields (in an order the file system decides)
UpdateComponent(f) ==
    /\ bpc = "walk"
    /\ f \notin visited
    /\ LET r == update_pbir_component(disk[f], table_map, column_map)
       IN  /\ disk' = [disk EXCEPT ![f] = r.content]
           /\ written' = IF r.wrote THEN written \cup {f} ELSE written
           /\ bpc' = IF r.raised THEN "failed" ELSE "walk"
    /\ visited' = visited \cup {f}
    /\ UNCHANGED <<csv, mappings, next_row, table_map, column_map, disk0>>
    /\ UNCHANGED <<fnVars, sanVars, ioVars, ruleVars, streamVars>>

FinishBatch ==
    /\ bpc = "walk"
    /\ visited = Files
    /\ bpc' = "done"
    /\ UNCHANGED <<csv, mappings, next_row, table_map, column_map, disk0, disk,
                   visited, written>>
    /\ UNCHANGED <<fnVars, sanVars, ioVars, ruleVars, streamVars>>

BatchNext ==
    \/ LoadCsv
    \/ BuildRow
    \/ StartWalk
    \/ \E f \in Files : UpdateComponent(f)
    \/ FinishBatch

SpecBatch == BatchInit /\ [][BatchNext]_vars

\* a row that renames both its table and its column
RenamesBoth(row) ==
    /\ row.new_tbl # NoName /\ row.new_tbl # row.old_tbl
    /\ row.old_col # NoName /\ row.new_col # NoName

\* the build loop has handled every row
Built == bpc \in {"walk", "done"} \/ (bpc = "failed" /\ visited # {})

\* the iteration of a row (T, C, T2, C2) puts (T2, C) -> C2 in the column
\* map and does not put (T, C) there
C1_RowKeyedByNewTable ==
    (bpc = "build" /\ next_row' = next_row + 1 /\ RenamesBoth(mappings[next_row]))
        => LET row == mappings[next_row]
           IN  /\ <<row.new_tbl, row.old_col>> \in DOMAIN column_map'
               /\ column_map'[<<row.new_tbl, row.old_col>>] = row.new_col
               /\ <<row.old_tbl, row.old_col>> \in DOMAIN column_map'
                    => <<row.old_tbl, row.old_col>> \in DOMAIN column_map

\* with the one row (T, C, T2, C2): the maps, and every file holding a
\* Column/Measure node with Entity = T and Property = C once
\* update_pbir_component has returned from it
C1_DocumentRewritten ==
    (Built /\ Len(mappings) = 1 /\ RenamesBoth(mappings[1]))
        => LET row == mappings[1]
           IN  /\ table_map = (row.old_tbl :> row.new_tbl)
               /\ column_map = (<<row.new_tbl, row.old_col>> :> row.new_col)
               /\ \A f \in visited, sh \in BindingShapes, k \in BindingKinds :
                      disk0[f] = BindingDoc(sh, k, row.old_tbl, row.old_col)
                          => /\ disk[f] = BindingDoc(sh, k, row.new_tbl, row.new_col)
                             /\ f \in written

\* C1: for a CSV row (T, C, T2, C2) with T2 non-empty and T2 # T, the column
\* map built by batch_update_pbir_project has the key (T2, C) -> C2 and no
\* key (T, C), and a document with a Column or Measure node of Entity T and
\* Property C has Entity T2 and Property C2 after update_entity followed by
\* update_property
C1_MappingBuildAndRewrite == [][C1_RowKeyedByNewTable]_vars /\ []C1_DocumentRewritten

C1_Witness ==
    /\ bpc = "done"
    /\ mappings = <<Row(tA, cc, tB, cd)>>
    /\ column_map = (<<tB, cc>> :> cd)
    /\ disk0["visual.json"] = BindingDoc("nested", "Measure", tA, cc)
    /\ disk["visual.json"] = BindingDoc("nested", "Measure", tB, cd)
    /\ "visual.json" \in written

(***************************************************************************)
(* Single calls of update_dax_expression, update_entity, update_property   *)
(***************************************************************************)
MaxExprLen == 4

\* the characters expressions are drawn from
ExprChars == {"A", "c", QUOTE, LBR, RBR, SPACE}
ShortExprs == UNION {[1..n -> ExprChars] : n \in 0..MaxExprLen}

\* lead 'K'[col] trail  and  lead K[col] trail
Leads == {<<>>, <<"x", SPACE>>, <<"(">>}
Trails == {<<>>, <<"+", "x">>}
TableRef(lead, q, name, col, trail) ==
    lead \o q \o name \o q \o <<LBR>> \o col \o <<RBR>> \o trail
TableRefs ==
    {TableRef(lead, q, name, cc, trail) :
        lead \in Leads, q \in {<<>>, <<QUOTE>>}, name \in {tA, tAx}, trail \in Trails}

\* expressions that name the tables A and B, bare and quoted
ChainExprs ==
    {tA, tB, <<"A", SPACE, "B">>, <<"B", "+", "A">>,
     BareRef(tA, cc) \o <<"+">> \o BareRef(tB, cc),
     QuotedRef(tA, cc) \o <<"+">> \o QuotedRef(tB, cc),
     QuotedRef(tB, cc) \o <<"+">> \o BareRef(tA, cc)}

\* references with a column name of two words: c[A c], 'A x'[A c], A[A c]
TwoWordColumnRefs ==
    {t \o <<LBR, "A", SPACE, "c", RBR>> : t \in {cc, <<QUOTE>> \o tAx \o <<QUOTE>>, tA}}

\* the (table_map, column_map) pairs of a call
MapPairs ==
    {<< <<>>, <<>> >>,
     << (tA :> tB), <<>> >>,
     << (tA :> tBx), <<>> >>,
     << (tA :> tBtab), <<>> >>,
     << (tA :> tB) @@ (tB :> tC), <<>> >>,
     << (tAx :> tB), <<>> >>,
     << <<>>, (<<tA, cc>> :> cd) >>,
     << (tA :> tB), (<<tB, cc>> :> cd) >>,
     << <<>>, (<<tA, ccx>> :> cd) @@ (<<tA, ce>> :> cd) >>,
     << (tA :> tA), (<<tA, cc>> :> cc) >>,
     << (tA :> tB) @@ (tB :> tA), <<>> >>}

\* valid JSON of a shape the traversals raise on
OddDocs ==
    {FilterEmptyFromDoc, ColumnNotObjectDoc,
     Obj(<< <<"filter", Null>> >>), Obj(<< <<"entities", Null>> >>),
     Obj(<< <<"Entity", Arr(<<>>)>> >>)}

CallDocs ==
    {BindingDoc(sh, k, e, p) : sh \in BindingShapes, k \in BindingKinds,
                               e \in {tA, tB}, p \in {cc, cd}}
        \cup {FilterDoc(e, p) : e \in {tA, tB}, p \in {cc, cd}}
        \cup {EntitiesDoc(e, x) : e \in {tA, tC}, x \in {BareRef(tA, cc), BareRef(tC, cd)}}
        \cup {ExprDoc(x) : x \in {BareRef(tA, cc), QuotedRef(tAx, cc), BareRef(tC, cd)}}
        \cup {EntityDoc(e) : e \in {tA, tB, tC}}
        \cup {MixedDoc(q, tA, c) : q \in {<<>>, <<QUOTE>>}, c \in {cc, ccx, ce}}
        \cup DeepDocs
        \cup {ExprDoc(x) : x \in ChainExprs}
        \cup {EntitiesDoc(tB, BareRef(tB, cc))}
        \cup {UnrelatedDoc} \cup OddDocs

Calls ==
    {[fn |-> "dax", expr |-> e, doc |-> Null, tm |-> m[1], cm |-> m[2]] :
        e \in ShortExprs \cup TableRefs \cup TwoWordColumnRefs \cup ChainExprs,
        m \in MapPairs}
    \cup {[fn |-> "entity", expr |-> <<>>, doc |-> d, tm |-> m[1], cm |-> <<>>] :
        d \in CallDocs, m \in MapPairs}
    \cup {[fn |-> "property", expr |-> <<>>, doc |-> d, tm |-> <<>>, cm |-> m[2]] :
        d \in CallDocs, m \in MapPairs}

BatchIdle ==
    /\ csv = [header |-> ExpectedColumns, rows |-> <<>>]
    /\ bpc = "idle"
    /\ mappings = <<>>
    /\ next_row = 1
    /\ table_map = <<>>
    /\ column_map = <<>>
    /\ disk0 = [f \in Files |-> UnrelatedDoc]
    /\ disk = disk0
    /\ visited = {}
    /\ written = {}
    /\ pending = NoWrite
    /\ reported = {}

RewriteInit ==
    /\ BatchIdle
    /\ RulesIdle
    /\ StreamIdle
    /\ call \in Calls
    /\ ret = Pending
    /\ SanIdle

Returned(w) == [done |-> TRUE, v |-> w.v, updated |-> w.updated, err |-> w.err]

CallDax ==
    /\ call.fn = "dax" /\ ~ret.done
    /\ ret' = Only({Returned(Walked(e, e # call.expr, FALSE)) :
                      e \in {update_dax_expression(call.expr, call.tm, call.cm)}})
    /\ UNCHANGED <<call, batchVars, sanVars, ioVars, ruleVars, streamVars>>

CallEntity ==
    /\ call.fn = "entity" /\ ~ret.done
    /\ ret' = Returned(update_entity(call.doc, call.tm))
    /\ UNCHANGED <<call, batchVars, sanVars, ioVars, ruleVars, streamVars>>

CallProperty ==
    /\ call.fn = "property" /\ ~ret.done
    /\ ret' = Returned(update_property(call.doc, call.cm))
    /\ UNCHANGED <<call, batchVars, sanVars, ioVars, ruleVars, streamVars>>

RewriteNext == CallDax \/ CallEntity \/ CallProperty

SpecRewrite == RewriteInit /\ [][RewriteNext]_vars

\* \b at index i of s
IsWordAt(s, i) == i >= 1 /\ i <= Len(s) /\ s[i] \in WordChars
Boundary(s, i) == IsWordAt(s, i - 1) # IsWordAt(s, i)
OccursAt(s, i, k) ==
    k # <<>> /\ i + Len(k) - 1 <= Len(s) /\ SubSeq(s, i, i + Len(k) - 1) = k

\* s holds the name k as a whole word
Names(s, k) ==
    \E i \in 1..Len(s) : OccursAt(s, i, k) /\ Boundary(s, i) /\ Boundary(s, i + Len(k))

\* s holds t[c] or t'[c]
RefersTo(s, t, c) ==
    \E i \in 1..Len(s) :
        \/ OccursAt(s, i, t \o <<LBR>> \o c \o <<RBR>>)
        \/ OccursAt(s, i, t \o <<QUOTE, LBR>> \o c \o <<RBR>>)

\* the new name as the claim expects it in place of the token q K q
ExpectedToken(q, new, wrap) ==
    IF q # <<>> THEN q \o new \o q
    ELSE IF wrap THEN <<QUOTE>> \o new \o <<QUOTE>>
    ELSE new

\* the call rewrote  lead q K q [col] trail  with K a table_map key
IsTableRefCall(lead, q, name, trail) ==
    /\ ret.done /\ call.fn = "dax" /\ call.cm = <<>>
    /\ call.expr = TableRef(lead, q, name, cc, trail)
    /\ name \in DOMAIN call.tm
    /\ q = <<>> => ~HasChar(name, SPACE)
    /\ \A k \in DOMAIN call.tm : ~Names(lead, k) /\ ~Names(trail, k)

RECURSIVE StringsOf(_)
StringsOf(v) ==
    IF IsStr(v) THEN {v[2]}
    ELSE IF IsObj(v) THEN UNION {StringsOf(v[2][j][2]) : j \in 1..Len(v[2])}
    ELSE IF IsArr(v) THEN UNION {StringsOf(v[2][j]) : j \in 1..Len(v[2])}
    ELSE {}

\* no string of the call's input names a table_map key, and for every
\* column_map key (t, c) no string refers to t[c] and t or c is no string
\* of the input
NoKeyMatches ==
    LET strs == IF call.fn = "dax" THEN {call.expr} ELSE StringsOf(call.doc)
    IN  /\ \A k \in DOMAIN call.tm : \A s \in strs : ~Names(s, k)
        /\ \A k \in DOMAIN call.cm :
              /\ \A s \in strs : ~RefersTo(s, k[1], k[2])
              /\ k[1] \notin strs \/ k[2] \notin strs

directDependents(t, name) ==
    {m \in DOMAIN t.measures : m # name /\ name \in t.measures[m]}

isUsedInVisuals(t, name) == \E v \in DOMAIN t.visuals : name \in t.visuals[v].fields

\* isUsedOrDependentsUsed, mutated: looks at the direct dependents only
isUsedOrDirectDependentsUsed(t, name, seen) ==
    \/ isUsedInVisuals(t, name)
    \/ \E d \in directDependents(t, name) : isUsedInVisuals(t, d)

RECURSIVE isUsedOrDependentsUsed(_, _, _)
isUsedOrDependentsUsed(t, name, seen) ==
    \/ isUsedInVisuals(t, name)
    \/ \E d \in directDependents(t, name) \ seen :
          isUsedOrDependentsUsed(t, d, seen \cup {name})

\* removeUnused(checkVisualUsage = true)
remove_unused_measures(t) ==
    Outcome([t EXCEPT !.measures =
                Restrict(t.measures,
                         {m \in DOMAIN t.measures : isUsedOrDependentsUsed(t, m, {})})],
            FALSE,
            {m \in DOMAIN t.measures : ~isUsedOrDependentsUsed(t, m, {})})

(***************************************************************************)
(* The trees the sanitizer is run on                                       *)
(***************************************************************************)
\* pages listed or not, with a missing, an empty or a filled visuals folder
VisualsStates == {"missing", "empty", "filled"}
PageOrders == {<<>>, <<"P1">>, <<"P1", "P2">>, <<"P2", "P1">>}

PageOfVisual == ("v1" :> "P1") @@ ("v2" :> "P2") @@ ("v3" :> "P3")

PageTree(order, active, st1, st2, rogue) ==
    LET st == ("P1" :> st1) @@ ("P2" :> st2) @@ ("P3" :> "filled")
        dirs == Range(order) \cup rogue
    IN  [BaseTree EXCEPT
            !.pageOrder = order,
            !.activePageName = active,
            !.pageDirs = dirs,
            !.visualsDirs = {p \in dirs : st[p] # "missing"},
            !.visuals = [v \in {w \in DOMAIN PageOfVisual :
                                   PageOfVisual[w] \in dirs /\ st[PageOfVisual[w]] = "filled"}
                           |-> PlainVisual(PageOfVisual[v])],
            !.pageJson = [p \in dirs |-> PageDoc("ReportSection", "Visible", <<>>)]]

PageTrees ==
    {PageTree(order, active, st1, st2, rogue) :
        order \in PageOrders, active \in {"P1", "P2", ""},
        st1 \in VisualsStates, st2 \in VisualsStates, rogue \in {{}, {"P3"}}}

\* tooltip and drillthrough pages
BindingTrees ==
    {[BaseTree EXCEPT !.pageJson = ("P1" :> PageDoc(b, vis, <<>>))] :
        b \in {"ReportSection", "Tooltip", "Drillthrough"},
        vis \in {"Visible", "HiddenInViewMode"}}

\* a page with visible visuals v1, v2 and a hidden visual h1; a bookmark may
\* hold a container for h1, with or without "display"
HiddenVisual(page) == Visual(page, TRUE, "card", <<>>, <<>>, {}, EmptyObj)
InteractionLists ==
    {<<>>,
     <<Interaction("v1", "h1"), Interaction("v1", "v2")>>,
     <<Interaction("h1", "v2")>>}
ContainerSets ==
    {NoFiles, ("v1" :> Container(FALSE)), ("h1" :> Container(TRUE)),
     ("h1" :> Container(FALSE)), ("h1" :> Container(TRUE)) @@ ("v1" :> Container(FALSE))}

HiddenTree(interactions, hasBookmark, containers) ==
    [BaseTree EXCEPT
        !.pageOrder = <<"P1", "P2">>,
        !.pageDirs = {"P1", "P2"},
        !.visualsDirs = {"P1", "P2"},
        !.visuals = ("v1" :> PlainVisual("P1")) @@ ("v2" :> PlainVisual("P1"))
                        @@ ("h1" :> HiddenVisual("P1")) @@ ("v3" :> PlainVisual("P2")),
        !.pageJson = ("P1" :> PageDoc("ReportSection", "Visible", interactions))
                        @@ ("P2" :> PageDoc("ReportSection", "Visible", <<>>)),
        !.bookmarksDir = hasBookmark,
        !.bookmarksJson = [exists |-> hasBookmark,
                           items |-> IF hasBookmark THEN <<Item("b1")>> ELSE <<>>],
        !.bookmarkFiles = IF hasBookmark THEN ("b1" :> BookmarkFile(containers))
                          ELSE NoFiles]

\* the same with the hidden visual h1 alone on page P1
HiddenOnlyTree(hasBookmark, containers) ==
    [HiddenTree(<<>>, hasBookmark, containers) EXCEPT
        !.visuals = ("h1" :> HiddenVisual("P1")) @@ ("v3" :> PlainVisual("P2"))]

HiddenTrees ==
    {HiddenTree(i, TRUE, c) : i \in InteractionLists, c \in ContainerSets}
        \cup {HiddenTree(i, FALSE, NoFiles) : i \in InteractionLists}
        \cup {HiddenOnlyTree(TRUE, c) : c \in {("h1" :> Container(TRUE)),
                                               ("h1" :> Container(FALSE))}}
        \cup {HiddenOnlyTree(FALSE, NoFiles)}

\* bookmarks b1, b2, b3 (b2 and b3 possibly children of the group g1), a
\* bookmark navigator and a button with a bookmark link
Navigator(groups) == Visual("P1", FALSE, "bookmarkNavigator", groups, <<>>, {}, EmptyObj)
Button(links) == Visual("P1", FALSE, "actionButton", <<>>, links, {}, EmptyObj)
ItemLists ==
    {<<>>, <<Item("b1")>>, <<Item("b1"), Item("b2")>>,
     <<Item("b1"), Group("g1", <<"b2", "b3">>)>>,
     <<Group("g1", <<"b2", "b3">>)>>}
GroupLists == {<<>>, <<"b1">>, <<"g1">>, <<"">>, <<"absent">>, <<"b2", "">>}
LinkLists == {<<>>, <<"b2">>, <<"b3">>}

BookmarkTree(items, groups, links, hasJson) ==
    [BaseTree EXCEPT
        !.visuals = ("v1" :> Navigator(groups)) @@ ("v2" :> Button(links)),
        !.bookmarksDir = TRUE,
        !.bookmarksJson = [exists |-> hasJson, items |-> IF hasJson THEN items ELSE <<>>],
        !.bookmarkFiles = [b \in {"b1", "b2", "b3"} |-> BookmarkFile(NoFiles)]]

BookmarkTrees ==
    {BookmarkTree(items, groups, links, TRUE) :
        items \in ItemLists, groups \in GroupLists, links \in LinkLists}
        \cup {BookmarkTree(<<>>, <<>>, <<>>, FALSE)}

\* visual documents with showAll keys
ShowAll == <<"showAll", True>>
ShowAllBodies ==
    {EmptyObj,
     Obj(<< <<"visual", Obj(<< <<"objects", Obj(<< <<"some_obj",
         Arr(<<Obj(<< <<"properties", Obj(<<ShowAll>>)>> >>)>>)>> >>)>> >>)>> >>),
     Obj(<< <<"a", Obj(<<ShowAll>>)>>, <<"b", Obj(<<ShowAll>>)>> >>),
     Obj(<< <<"list", Arr(<<Obj(<<ShowAll>>), Obj(<<ShowAll>>)>>)>> >>),
     Obj(<< ShowAll, <<"inner", Obj(<<ShowAll>>)>> >>),
     Obj(<< <<"a", Obj(<< <<"x", True>> >>)>>, <<"b", Obj(<<ShowAll>>)>> >>)}

ShowAllTrees ==
    {[BaseTree EXCEPT
        !.visuals = ("v1" :> [PlainVisual("P1") EXCEPT !.body = b1])
                        @@ ("v2" :> [PlainVisual("P1") EXCEPT !.body = b2])] :
        b1 \in ShowAllBodies, b2 \in {EmptyObj, Obj(<<ShowAll>>)}}

\* declared custom visuals and the types the visuals have
CustomVisualTrees ==
    {[BaseTree EXCEPT
        !.visuals = ("v1" :> [PlainVisual("P1") EXCEPT !.visualType = ty1])
                        @@ ("v2" :> [PlainVisual("P1") EXCEPT !.visualType = ty2]),
        !.publicCustomVisuals = decl] :
        ty1 \in {"card", "cvA"}, ty2 \in {"card", "cvB"},
        decl \in {[present |-> FALSE, list |-> <<>>], [present |-> TRUE, list |-> <<>>],
                  [present |-> TRUE, list |-> <<"cvA">>],
                  [present |-> TRUE, list |-> <<"cvA", "cvB">>]}}

\* measures MeasureA .. MeasureD, their references, and the measures the
\* visuals use
MeasureGraphs ==
    {("MeasureA" :> {}) @@ ("MeasureB" :> {"MeasureA"}) @@ ("MeasureC" :> {"MeasureB"})
        @@ ("MeasureD" :> {}),
     ("MeasureA" :> {"MeasureC"}) @@ ("MeasureB" :> {"MeasureA"})
        @@ ("MeasureC" :> {"MeasureB"}) @@ ("MeasureD" :> {"MeasureA"}),
     ("MeasureA" :> {"MeasureA"}) @@ ("MeasureB" :> {"MeasureA", "MeasureD"})
        @@ ("MeasureD" :> {})}

MeasureTrees ==
    {[BaseTree EXCEPT
        !.visuals = ("v1" :> [PlainVisual("P1") EXCEPT !.fields = used]),
        !.measures = g] :
        g \in MeasureGraphs,
        used \in SUBSET {"MeasureA", "MeasureB", "MeasureC", "MeasureD"}}

Trees ==
    PageTrees \cup BindingTrees \cup HiddenTrees \cup BookmarkTrees
        \cup ShowAllTrees \cup CustomVisualTrees \cup MeasureTrees

(***************************************************************************)
(* sanitize_powerbi_report(report_path, actions)                           *)
(***************************************************************************)
KnownActions ==
    {"remove_unused_measures", "remove_unused_bookmarks", "remove_unused_custom_visuals",
     "disable_show_items_with_no_data", "hide_tooltip_drillthrough_pages",
     "set_first_page_as_active", "remove_empty_pages",
     "remove_hidden_visuals_never_shown"}

\* remove_empty_pages and remove_hidden_visuals_never_shown in both orders
PagesThenHidden == <<"remove_empty_pages", "remove_hidden_visuals_never_shown">>
HiddenThenPages == <<"remove_hidden_visuals_never_shown", "remove_empty_pages">>

\* the action lists of a call: every action run twice, lists with an
\* unknown name, and lists of actions that work on the same pages
ActionLists ==
    {<<a, a>> : a \in KnownActions}
        \cup {<<"no_such_action", "set_first_page_as_active">>,
              <<"set_first_page_as_active", "no_such_action", "remove_empty_pages">>,
              <<"no_such_action", "also_unknown", "hide_tooltip_drillthrough_pages">>}
        \cup {<<"set_first_page_as_active", "remove_empty_pages">>,
              <<"set_first_page_as_active", "remove_hidden_visuals_never_shown",
                "remove_empty_pages">>,
              PagesThenHidden, HiddenThenPages, PagesThenHidden \o PagesThenHidden}

\* the keyword arguments of a call beyond report_path and actions
Keywords == {{}, {"dry_run"}}

SanitizeInit ==
    /\ BatchIdle
    /\ RulesIdle
    /\ StreamIdle
    /\ call = IdleCall
    /\ ret = Pending
    /\ tree \in Trees
    /\ san \in [actions : ActionLists, keywords : Keywords, pc : {1},
                status : {"called"}, runs : {<<>>}, warned : {<<>>}]

\* a run of one action: its name, the tree it started from, whether it
\* raised, and what it decided
Run(name, before, o) ==
    [action |-> name, before |-> before, err |-> o.err, decided |-> o.decided]

\* the call binds its arguments: the function has no parameter but
\* report_path and actions, any other keyword is a TypeError
BindArguments ==
    /\ san.status = "called"
    /\ san' = [san EXCEPT !.status = IF san.keywords = {} THEN "running" ELSE "raised"]
    /\ UNCHANGED <<tree, batchVars, fnVars, ioVars, ruleVars, streamVars>>

\* action_map[action](report_path) for the next name of the list
IsNext(name) ==
    /\ san.status = "running"
    /\ san.pc <= Len(san.actions)
    /\ san.actions[san.pc] = name

Ran(name, o) ==
    /\ tree' = o.tree
    /\ san' = [san EXCEPT !.pc = san.pc + 1,
                          !.status = IF o.err THEN "raised" ELSE "running",
                          !.runs = Append(san.runs, Run(name, tree, o))]
    /\ UNCHANGED <<batchVars, fnVars, ioVars, ruleVars, streamVars>>

RunRemoveUnusedMeasures ==
    /\ IsNext("remove_unused_measures")
    /\ Ran("remove_unused_measures", remove_unused_measures(tree))

RunRemoveUnusedBookmarks ==
    /\ IsNext("remove_unused_bookmarks")
    /\ Ran("remove_unused_bookmarks", remove_unused_bookmarks(tree))

RunRemoveUnusedCustomVisuals ==
    /\ IsNext("remove_unused_custom_visuals")
    /\ \E o \in remove_unused_custom_visuals(tree) : Ran("remove_unused_custom_visuals", o)

RunDisableShowItemsWithNoData ==
    /\ IsNext("disable_show_items_with_no_data")
    /\ Ran("disable_show_items_with_no_data", disable_show_items_with_no_data(tree))

RunHideTooltipDrillthroughPages ==
    /\ IsNext("hide_tooltip_drillthrough_pages")
    /\ Ran("hide_tooltip_drillthrough_pages", hide_tooltip_drillthrough_pages(tree))

RunSetFirstPageAsActive ==
    /\ IsNext("set_first_page_as_active")
    /\ Ran("set_first_page_as_active", set_first_page_as_active(tree))

RunRemoveEmptyPages ==
    /\ IsNext("remove_empty_pages")
    /\ Ran("remove_empty_pages", remove_empty_pages(tree))

RunRemoveHiddenVisualsNeverShown ==
    /\ IsNext("remove_hidden_visuals_never_shown")
    /\ Ran("remove_hidden_visuals_never_shown", remove_hidden_visuals_never_shown(tree))

\* the else branch as a lookup that fails: action_map[action] is a KeyError
SkipUnknownActionRaises ==
    /\ san.status = "running"
    /\ san.pc <= Len(san.actions)
    /\ san.actions[san.pc] \notin KnownActions
    /\ san' = [san EXCEPT !.status = "raised"]
    /\ UNCHANGED <<tree, batchVars, fnVars, ioVars, ruleVars, streamVars>>

\* print(f"Warning: Unknown action '{action}' skipped.")
SkipUnknownAction ==
    /\ san.status = "running"
    /\ san.pc <= Len(san.actions)
    /\ san.actions[san.pc] \notin KnownActions
    /\ san' = [san EXCEPT !.pc = san.pc + 1,
                          !.warned = Append(san.warned, san.actions[san.pc])]
    /\ UNCHANGED <<tree, batchVars, fnVars, ioVars, ruleVars, streamVars>>

\* print("Power BI report sanitization completed.")
FinishSanitize ==
    /\ san.status = "running"
    /\ san.pc > Len(san.actions)
    /\ san' = [san EXCEPT !.status = "done"]
    /\ UNCHANGED <<tree, batchVars, fnVars, ioVars, ruleVars, streamVars>>

SanitizeNext ==
    \/ BindArguments
    \/ RunRemoveUnusedMeasures
    \/ RunRemoveUnusedBookmarks
    \/ RunRemoveUnusedCustomVisuals
    \/ RunDisableShowItemsWithNoData
    \/ RunHideTooltipDrillthroughPages
    \/ RunSetFirstPageAsActive
    \/ RunRemoveEmptyPages
    \/ RunRemoveHiddenVisualsNeverShown
    \/ SkipUnknownAction
    \/ FinishSanitize

SpecSanitize == SanitizeInit /\ [][SanitizeNext]_vars

\* the last run of an action, once one has run
LastRun == san.runs[Len(san.runs)]
JustRan(name) == san.runs # <<>> /\ LastRun.action = name /\ ~LastRun.err

\* the measures that hold [name] for a name of names, through chains of at
\* most n dependents, with names themselves
RECURSIVE DependentsWithin(_, _, _)
DependentsWithin(t, names, n) ==
    IF n = 0 THEN names
    ELSE DependentsWithin(t,
             names \cup {m \in DOMAIN t.measures : t.measures[m] \cap names # {}},
             n - 1)

\* the measure or one of its direct or indirect dependents is used in a visual
UsedThroughDependents(t, name) ==
    \E d \in DependentsWithin(t, {name}, Cardinality(DOMAIN t.measures)) :
        isUsedInVisuals(t, d)

\* C2: remove_unused_measures removes a measure if and only if neither the
\* measure nor any measure that depends on it, directly or through a chain
\* of dependents, is used in a visual; the measures kept are unchanged
C2_RemovedIffNoDependentUsed ==
    JustRan("remove_unused_measures")
        => /\ DOMAIN tree.measures =
                  {m \in DOMAIN LastRun.before.measures :
                      UsedThroughDependents(LastRun.before, m)}
           /\ \A m \in DOMAIN tree.measures : tree.measures[m] = LastRun.before.measures[m]

\* MeasureC = [MeasureB] + 10 is used, MeasureB = [MeasureA] * 2 and MeasureA
\* are not: all three are kept and MeasureD goes
C2_Witness ==
    /\ JustRan("remove_unused_measures")
    /\ Len(san.runs) = 1
    /\ {"MeasureB", "MeasureC"} \subseteq DOMAIN LastRun.before.measures
    /\ "v1" \in DOMAIN LastRun.before.visuals
    /\ LastRun.before.measures["MeasureB"] = {"MeasureA"}
    /\ LastRun.before.measures["MeasureC"] = {"MeasureB"}
    /\ LastRun.before.visuals["v1"].fields = {"MeasureC"}
    /\ DOMAIN tree.measures = {"MeasureA", "MeasureB", "MeasureC"}

\* a bookmarkNavigator whose bookmarkGroup literal is '' or absent
HasWildcardNavigator(t) ==
    \E v \in DOMAIN t.visuals :
        /\ t.visuals[v].visualType = "bookmarkNavigator"
        /\ \E i \in DOMAIN t.visuals[v].groups : t.visuals[v].groups[i] \in {"", "absent"}

\* C3: with a bookmarkNavigator whose bookmarkGroup literal is the empty
\* string or absent, remove_unused_bookmarks removes no bookmark: the items
\* of bookmarks.json and the *.bookmark.json files are unchanged
C3_WildcardKeepsEveryBookmark ==
    (san.runs # <<>> /\ LastRun.action = "remove_unused_bookmarks"
        /\ LastRun.before.bookmarksJson.exists /\ HasWildcardNavigator(LastRun.before))
        => /\ ~LastRun.err
           /\ tree.bookmarksJson = LastRun.before.bookmarksJson
           /\ tree.bookmarkFiles = LastRun.before.bookmarkFiles

\* an interaction of some page.json names the visual
InInteractions(t, name) ==
    \E p \in DOMAIN t.pageJson :
        \E i \in DOMAIN t.pageJson[p].visualInteractions :
            name \in {t.pageJson[p].visualInteractions[i].source,
                      t.pageJson[p].visualInteractions[i].target}

InContainers(t, name) ==
    \E b \in DOMAIN t.bookmarkFiles : name \in DOMAIN t.bookmarkFiles[b].containers

\* hidden, and no bookmark has a container for it without "display"
NeverShown(t, name) ==
    /\ t.visuals[name].isHidden
    /\ \A b \in DOMAIN t.bookmarkFiles :
          name \in DOMAIN t.bookmarkFiles[b].containers
              => t.bookmarkFiles[b].containers[name].display

\* C4: after remove_hidden_visuals_never_shown every hidden visual that no
\* bookmark shows has no folder, is named by no visualInteractions entry and
\* is the key of no bookmark's visualContainers
C4_HiddenVisualLeavesNoTrace ==
    JustRan("remove_hidden_visuals_never_shown")
        => \A name \in DOMAIN LastRun.before.visuals :
              NeverShown(LastRun.before, name)
                  => /\ name \notin DOMAIN tree.visuals
                     /\ ~InInteractions(tree, name)
                     /\ ~InContainers(tree, name)

\* new is old with the elements at the indices in kept, in the old order
IsSubsequenceAt(new, old, kept) ==
    /\ Len(new) = Cardinality(kept)
    /\ \E f \in [1..Len(new) -> kept] :
          /\ \A i, j \in 1..Len(new) : i < j => f[i] < f[j]
          /\ \A i \in 1..Len(new) : new[i] = old[f[i]]

\* the page has a visuals folder with something in it
NonEmptyPage(t, page) ==
    page \in t.visualsDirs /\ \E v \in DOMAIN t.visuals : t.visuals[v].page = page

\* C5: after remove_empty_pages on a tree with a non-empty pageOrder,
\* pageOrder is the subsequence of the pages with a non-empty visuals
\* folder, or the original first page alone when there is none;
\* activePageName is unchanged if still listed and else the first page
\* listed; every folder under definition/pages not listed, rogue folders
\* included, is deleted
C5_EmptyPagesPruned ==
    (JustRan("remove_empty_pages") /\ LastRun.before.pageOrder # <<>>)
        => LET old == LastRun.before
               kept == {i \in DOMAIN old.pageOrder : NonEmptyPage(old, old.pageOrder[i])}
           IN  /\ kept # {} => IsSubsequenceAt(tree.pageOrder, old.pageOrder, kept)
               /\ kept = {} => tree.pageOrder = <<old.pageOrder[1]>>
               /\ tree.activePageName =
                      IF old.activePageName \in Range(tree.pageOrder)
                      THEN old.activePageName ELSE tree.pageOrder[1]
               /\ tree.pageDirs = old.pageDirs \cap Range(tree.pageOrder)
               /\ \A v \in DOMAIN tree.visuals : tree.visuals[v].page \in tree.pageDirs
               /\ DOMAIN tree.pageJson \subseteq tree.pageDirs

C5_Witness ==
    /\ JustRan("remove_empty_pages")
    /\ Len(san.runs) = 1
    /\ LastRun.before.pageOrder = <<"P2", "P1">>
    /\ LastRun.before.activePageName = "P2"
    /\ LastRun.before.pageDirs = {"P1", "P2", "P3"}
    /\ "v3" \in DOMAIN LastRun.before.visuals
    /\ tree.pageOrder = <<"P1">>
    /\ tree.activePageName = "P1"
    /\ tree.pageDirs = {"P1"}
    /\ DOMAIN tree.visuals = {"v1"}

\* C6: for every action A and every tree, running A a second time on the
\* result of A completes without error, decides nothing and leaves the tree
\* as the first run left it
C6_SecondRunIsNoOp ==
    (Len(san.runs) = 2 /\ san.runs[1].action = san.runs[2].action /\ ~san.runs[1].err)
        => /\ ~san.runs[2].err
           /\ san.runs[2].decided = {}
           /\ tree = san.runs[2].before

\* C7: a call with dry_run=True goes through its actions, deciding what
\* they would change, and leaves the tree as it was
C7_DryRunDecidesWithoutWriting ==
    ("dry_run" \in san.keywords /\ san.status # "called")
        => /\ san.status # "raised"
           /\ san.status = "done" => Len(san.runs) + Len(san.warned) = Len(san.actions)
           /\ \A i \in DOMAIN san.runs : tree = san.runs[1].before

\* the document holds a showAll key at some depth
RECURSIVE HasShowAll(_)
HasShowAll(data) ==
    IF IsObj(data)
    THEN Has(data, "showAll") \/ \E i \in 1..Len(data[2]) : HasShowAll(data[2][i][2])
    ELSE IF IsArr(data) THEN \E i \in 1..Len(data[2]) : HasShowAll(data[2][i])
    ELSE FALSE

\* C10: after one run of disable_show_items_with_no_data no visual.json holds
\* a showAll key at any depth
C10_NoShowAllLeft ==
    JustRan("disable_show_items_with_no_data")
        => \A v \in DOMAIN tree.visuals : ~HasShowAll(tree.visuals[v].body)

\* the declared custom visual types that some visual.json has as visualType
DeclaredAndUsed(t) ==
    Range(t.publicCustomVisuals.list)
        \cap {t.visuals[v].visualType : v \in DOMAIN t.visuals}

\* C11: after remove_unused_custom_visuals publicCustomVisuals holds exactly
\* the declared types that some visual has; when a type is declared and no
\* declared type is instantiated the key is absent from report.json
C11_DeclarationMatchesUse ==
    JustRan("remove_unused_custom_visuals")
        => IF Range(LastRun.before.publicCustomVisuals.list) # {}
              /\ DeclaredAndUsed(LastRun.before) = {}
           THEN ~tree.publicCustomVisuals.present
           ELSE Range(tree.publicCustomVisuals.list) = DeclaredAndUsed(LastRun.before)

\* some visual refers to the bookmark: a bookmarkNavigator by a bookmarkGroup
\* literal, any other visual by a visualLink bookmark literal
DirectlyUsed(t, name) ==
    \E v \in DOMAIN t.visuals :
        \/ /\ t.visuals[v].visualType = "bookmarkNavigator"
           /\ name \in Range(t.visuals[v].groups)
        \/ /\ t.visuals[v].visualType # "bookmarkNavigator"
           /\ name \in Range(t.visuals[v].links)

UsedChildren(t, item) == {c \in Range(item.children) : DirectlyUsed(t, c)}

\* the item as it is retained: whole when directly used, else with its
\* children pruned to the used ones
Retained(t, item) ==
    IF DirectlyUsed(t, item.name) THEN item
    ELSE [item EXCEPT !.children = Filter(item.children, UsedChildren(t, item))]

\* the names that count as used because of the item
UsedBy(t, item) ==
    IF DirectlyUsed(t, item.name) THEN {item.name} \cup Range(item.children)
    ELSE IF UsedChildren(t, item) # {} THEN {item.name} \cup UsedChildren(t, item)
    ELSE {}

\* C12: without a wildcard navigator, remove_unused_bookmarks keeps exactly
\* the top-level items that are directly used or have a used child, in their
\* order; a kept item not directly used has its children pruned to the used
\* ones, a directly used item keeps all its children and they count as used;
\* the *.bookmark.json files left are exactly those named in the used set;
\* the bookmarks folder is deleted when no item is retained
C12_BookmarkRetention ==
    (san.runs # <<>> /\ LastRun.action = "remove_unused_bookmarks"
        /\ LastRun.before.bookmarksJson.exists /\ ~HasWildcardNavigator(LastRun.before))
        => LET old == LastRun.before
               items == old.bookmarksJson.items
               kept == {i \in DOMAIN items : UsedBy(old, items[i]) # {}}
               used == UNION {UsedBy(old, items[i]) : i \in DOMAIN items}
           IN  /\ ~LastRun.err
               /\ kept = {} => /\ ~tree.bookmarksDir
                               /\ ~tree.bookmarksJson.exists
                               /\ tree.bookmarkFiles = NoFiles
               /\ kept # {} =>
                     /\ tree.bookmarksDir /\ tree.bookmarksJson.exists
                     /\ Len(tree.bookmarksJson.items) = Cardinality(kept)
                     /\ \E f \in [DOMAIN tree.bookmarksJson.items -> kept] :
                           /\ \A i, j \in DOMAIN f : i < j => f[i] < f[j]
                           /\ \A i \in DOMAIN f :
                                 tree.bookmarksJson.items[i] = Retained(old, items[f[i]])
                     /\ DOMAIN tree.bookmarkFiles = DOMAIN old.bookmarkFiles \cap used
                     /\ \A b \in DOMAIN tree.bookmarkFiles :
                           tree.bookmarkFiles[b] = old.bookmarkFiles[b]

\* b1 is named by the navigator and b2 by a button: b1 stays, the group g1
\* stays with b2 alone, and b3.bookmark.json is deleted
C12_Witness ==
    /\ JustRan("remove_unused_bookmarks")
    /\ Len(san.runs) = 1
    /\ LastRun.before.bookmarksJson.items = <<Item("b1"), Group("g1", <<"b2", "b3">>)>>
    /\ ~HasWildcardNavigator(LastRun.before)
    /\ tree.bookmarksJson.items = <<Item("b1"), Group("g1", <<"b2">>)>>
    /\ DOMAIN tree.bookmarkFiles = {"b1", "b2"}

(***************************************************************************)
(* batch_update_pbir_project on a file system whose operations can fail:   *)
(* open(file_path, 'r') and open(file_path, 'w') may raise IOError, and    *)
(* the write is the sequence open (truncate), json.dump, close.  A run     *)
(* that is interrupted stops in the state it is in.                        *)
(***************************************************************************)
IoDocs == {BindingDoc("nested", "Column", tA, cc), UnrelatedDoc, Malformed, Undecodable}
DiskIO == [Files -> IoDocs]
IoRows == {<<Row(tA, cc, tB, cd)>>, <<Row(tA, NoName, tB, NoName)>>}

BatchIOInit ==
    /\ csv \in [header : {ExpectedColumns}, rows : IoRows]
    /\ bpc = "start"
    /\ mappings = <<>>
    /\ next_row = 1
    /\ table_map = <<>>
    /\ column_map = <<>>
    /\ disk0 \in DiskIO
    /\ disk = disk0
    /\ visited = {}
    /\ written = {}
    /\ call = IdleCall
    /\ ret = Pending
    /\ SanIdle
    /\ pending = NoWrite
    /\ reported = {}
    /\ RulesIdle
    /\ StreamIdle

\* the next file of os.walk can be taken up
NextFile(f) == bpc = "walk" /\ f \notin visited /\ pending = NoWrite

\* with open(file_path, 'r') raises IOError: except IOError prints
ReadFails(f) ==
    /\ NextFile(f)
    /\ reported' = reported \cup {f}
    /\ visited' = visited \cup {f}
    /\ UNCHANGED <<csv, bpc, mappings, next_row, table_map, column_map, disk0, disk,
                   written, pending>>
    /\ UNCHANGED <<fnVars, sanVars, ruleVars, streamVars>>

\* the try block up to and including open(file_path, 'w'), which truncates
\* the file
TryComponent(f) ==
    /\ NextFile(f)
    /\ LET r == update_pbir_component(disk[f], table_map, column_map)
       IN  IF r.wrote
           THEN /\ pending' = [file |-> f, content |-> r.content]
                /\ disk' = [disk EXCEPT ![f] = Truncated]
                /\ UNCHANGED <<bpc, visited, reported>>
           ELSE /\ bpc' = IF r.raised THEN "failed" ELSE "walk"
                /\ visited' = visited \cup {f}
                /\ reported' = IF disk[f] \in {Malformed, Truncated, Partial}
                               THEN reported \cup {f} ELSE reported
                /\ UNCHANGED <<disk, pending>>
    /\ UNCHANGED <<csv, mappings, next_row, table_map, column_map, disk0, written>>
    /\ UNCHANGED <<fnVars, sanVars, ruleVars, streamVars>>

\* open(file_path, 'w') raises IOError (a read-only file): nothing is
\* truncated
OpenWriteFails(f) ==
    /\ NextFile(f)
    /\ update_pbir_component(disk[f], table_map, column_map).wrote
    /\ reported' = reported \cup {f}
    /\ visited' = visited \cup {f}
    /\ UNCHANGED <<csv, bpc, mappings, next_row, table_map, column_map, disk0, disk,
                   written, pending>>
    /\ UNCHANGED <<fnVars, sanVars, ruleVars, streamVars>>

\* json.dump: the buffer is flushed with the first part of the document
FlushPart ==
    /\ pending # NoWrite
    /\ disk[pending.file] = Truncated
    /\ disk' = [disk EXCEPT ![pending.file] = Partial]
    /\ UNCHANGED <<csv, bpc, mappings, next_row, table_map, column_map, disk0,
                   visited, written, pending, reported>>
    /\ UNCHANGED <<fnVars, sanVars, ruleVars, streamVars>>

\* json.dump or the close raises IOError (no space left on device)
WriteFails ==
    /\ pending # NoWrite
    /\ reported' = reported \cup {pending.file}
    /\ visited' = visited \cup {pending.file}
    /\ pending' = NoWrite
    /\ UNCHANGED <<csv, bpc, mappings, next_row, table_map, column_map, disk0, disk,
                   written>>
    /\ UNCHANGED <<fnVars, sanVars, ruleVars, streamVars>>

\* the with block of the write is left: the document is on disk
CloseWrite ==
    /\ pending # NoWrite
    /\ disk' = [disk EXCEPT ![pending.file] = pending.content]
    /\ written' = written \cup {pending.file}
    /\ visited' = visited \cup {pending.file}
    /\ pending' = NoWrite
    /\ UNCHANGED <<csv, bpc, mappings, next_row, table_map, column_map, disk0, reported>>
    /\ UNCHANGED <<fnVars, sanVars, ruleVars, streamVars>>

BatchIONext ==
    \/ LoadCsv
    \/ BuildRow
    \/ StartWalk
    \/ \E f \in Files : ReadFails(f)
    \/ \E f \in Files : TryComponent(f)
    \/ \E f \in Files : OpenWriteFails(f)
    \/ FlushPart
    \/ WriteFails
    \/ CloseWrite
    \/ FinishBatch

SpecBatchIO == BatchIOInit /\ [][BatchIONext]_vars

\* what update_pbir_component makes of the file's original content
Rewritten(f) == update_pbir_component(disk0[f], table_map, column_map).content

\* C13: a .json file that cannot be parsed, read or written is reported and
\* left as it was, the run does not end because of it, and every other file
\* is processed as it would be without the bad file
C13_BadFileSkipped ==
    /\ \A f \in reported : disk[f] = disk0[f]
    /\ \A f \in visited : disk0[f] \in {Malformed, Undecodable} => f \in reported
    /\ bpc # "failed"
    /\ bpc = "done" => \A g \in Files \ reported : disk[g] = Rewritten(g)

\* C17: at every point of the run, where an interruption would stop it,
\* every file holds its complete content from before the run or its complete
\* rewritten content; a written file holds the rewritten content and a file
\* not yet taken up is untouched
C17_FilesWholeAtEveryPoint ==
    \A f \in Files :
        /\ disk[f] \in {disk0[f], Rewritten(f)}
        /\ f \in written => disk[f] = Rewritten(f)
        /\ (f \notin visited /\ pending.file # f) => disk[f] = disk0[f]

\* the header, its names stripped of byte order marks, lacks a column
HeaderLacksColumn ==
    \E col \in ExpectedColumns : \A name \in csv.header : StripBom(name) # col

\* C14: when the CSV header lacks one of old_tbl, old_col, new_tbl, new_col
\* (after stripping a BOM from the names) load_csv_mapping fails before it
\* accepts a row, no TableMap or ColumnMap entry is built, and no file of the
\* project is opened for update or written
C14_BadHeaderFailsFast ==
    HeaderLacksColumn
        => /\ bpc \in {"start", "failed"}
           /\ mappings = <<>>
           /\ table_map = <<>> /\ column_map = <<>>
           /\ visited = {} /\ written = {}
           /\ disk = disk0

\* the run has failed on a header with a marked old_tbl and no new_col,
\* whose only row would have been accepted
C14_Witness ==
    /\ bpc = "failed"
    /\ csv.header = {BomOldTbl, "old_col", "new_tbl"}
    /\ csv.rows = <<Row(tA, cc, tB, cd)>>
    /\ disk0["visual.json"] = BindingDoc("nested", "Column", tA, cc)
    /\ disk = disk0

\* the names of the first n entries of the action list that are in keep
RECURSIVE NamesAmong(_, _, _)
NamesAmong(actions, n, keep) ==
    IF n = 0 THEN <<>>
    ELSE NamesAmong(actions, n - 1, keep)
             \o (IF actions[n] \in keep THEN <<actions[n]>> ELSE <<>>)

MaxUnits == 3

Scopes == {"report", "page", "visual", "measure", "bookmark"}
EvalOutcomes == {"truthy", "falsy", "raises"}

\* the units of the scope: the report itself, or the pages, visuals,
\* measures or bookmarks of the context
Rules ==
    [scope : {"report"}, outcomes : [1..1 -> EvalOutcomes]]
        \cup [scope : (Scopes \ {"report"}) \cup {"other"},
              outcomes : UNION {[1..n -> EvalOutcomes] : n \in 0..MaxUnits}]

Violation(unit, kind) == [unit |-> unit, kind |-> kind]

\* try: if not result: violations.append(...)
\* except Exception as e: violations.append({"message": "Expression error..."})
ViolationOnError(violations, unit, outcome) ==
    IF outcome = "falsy" THEN Append(violations, Violation(unit, "failed"))
    ELSE IF outcome = "raises" THEN Append(violations, Violation(unit, "error"))
    ELSE violations

\* try: if not result: violations.append(...)
\* except Exception: pass
SkipOnError(violations, unit, outcome) ==
    IF outcome = "falsy" THEN Append(violations, Violation(unit, "failed"))
    ELSE violations

RulesInit ==
    /\ BatchIdle
    /\ call = IdleCall
    /\ ret = Pending
    /\ SanIdle
    /\ StreamIdle
    /\ rule \in Rules
    /\ verdict = [unit |-> 1, violations |-> <<>>, status |-> "evaluating",
                  passed |-> FALSE]

\* the next unit of a rule of the scope
NextUnit(scope) ==
    /\ verdict.status = "evaluating"
    /\ rule.scope = scope
    /\ verdict.unit <= Len(rule.outcomes)

\* if rule.scope == "report"
EvalReport ==
    /\ NextUnit("report")
    /\ verdict' = [verdict EXCEPT
           !.unit = verdict.unit + 1,
           !.violations = ViolationOnError(verdict.violations, verdict.unit,
                                           rule.outcomes[verdict.unit])]
    /\ UNCHANGED <<rule, batchVars, fnVars, sanVars, ioVars, streamVars>>

\* elif rule.scope == "page": for page in pages
EvalPage ==
    /\ NextUnit("page")
    /\ verdict' = [verdict EXCEPT
           !.unit = verdict.unit + 1,
           !.violations = ViolationOnError(verdict.violations, verdict.unit,
                                           rule.outcomes[verdict.unit])]
    /\ UNCHANGED <<rule, batchVars, fnVars, sanVars, ioVars, streamVars>>

\* elif rule.scope == "visual": for page in pages: for visual in visuals
EvalVisual ==
    /\ NextUnit("visual")
    /\ verdict' = [verdict EXCEPT
           !.unit = verdict.unit + 1,
           !.violations = SkipOnError(verdict.violations, verdict.unit,
                                      rule.outcomes[verdict.unit])]
    /\ UNCHANGED <<rule, batchVars, fnVars, sanVars, ioVars, streamVars>>

\* elif rule.scope == "measure": for entity in entities: for measure in measures
EvalMeasure ==
    /\ NextUnit("measure")
    /\ verdict' = [verdict EXCEPT
           !.unit = verdict.unit + 1,
           !.violations = SkipOnError(verdict.violations, verdict.unit,
                                      rule.outcomes[verdict.unit])]
    /\ UNCHANGED <<rule, batchVars, fnVars, sanVars, ioVars, streamVars>>

\* elif rule.scope == "bookmark": for bookmark in bookmarks
EvalBookmark ==
    /\ NextUnit("bookmark")
    /\ verdict' = [verdict EXCEPT
           !.unit = verdict.unit + 1,
           !.violations = SkipOnError(verdict.violations, verdict.unit,
                                      rule.outcomes[verdict.unit])]
    /\ UNCHANGED <<rule, batchVars, fnVars, sanVars, ioVars, streamVars>>

\* passed = len(violations) == 0; return passed, violations
ReturnVerdict ==
    /\ verdict.status = "evaluating"
    /\ rule.scope \notin Scopes \/ verdict.unit > Len(rule.outcomes)
    /\ verdict' = [verdict EXCEPT !.status = "returned",
                                  !.passed = (verdict.violations = <<>>)]
    /\ UNCHANGED <<rule, batchVars, fnVars, sanVars, ioVars, streamVars>>

RulesNext ==
    \/ EvalReport
    \/ EvalPage
    \/ EvalVisual
    \/ EvalMeasure
    \/ EvalBookmark
    \/ ReturnVerdict

SpecRules == RulesInit /\ [][RulesNext]_vars

\* C16: for every scope, a unit for which the rule's expression raises gets
\* a violation, so a rule with such a unit is returned as not passed; the
\* exception does not leave the evaluator
C16_RaisingUnitIsViolation ==
    /\ verdict.status \in {"idle", "evaluating", "returned"}
    /\ (verdict.status = "returned" /\ rule.scope \in Scopes)
           => \A u \in DOMAIN rule.outcomes :
                  rule.outcomes[u] = "raises"
                      => /\ ~verdict.passed
                         /\ \E i \in DOMAIN verdict.violations :
                                verdict.violations[i].unit = u

\* the rows of the mapping that rename a column
ColumnRows == {i \in DOMAIN mappings :
                  mappings[i].old_col # NoName /\ mappings[i].new_col # NoName}

\* the key the row's column has under the final table map
FinalKey(row) ==
    <<IF row.old_tbl \in DOMAIN table_map THEN table_map[row.old_tbl] ELSE row.old_tbl,
      row.old_col>>

\* C18: once the maps are built, the ColumnMap keys are exactly the keys
\* (TableMap.get(T, T), C) of the rows with old_tbl = T and old_col = C,
\* TableMap being the final table map, whatever the order of the rows
C18_KeysUseFinalTableMap ==
    bpc \in {"walk", "done"}
        => DOMAIN column_map = {FinalKey(mappings[i]) : i \in ColumnRows}

\* every whole-word occurrence of a table_map key in s directly follows '['
KeysOnlyAfterBracket(s, tm) ==
    \A k \in DOMAIN tm, i \in 1..Len(s) :
        (OccursAt(s, i, k) /\ Boundary(s, i) /\ Boundary(s, i + Len(k)))
            => (i > 1 /\ s[i - 1] = LBR)

\* C19: pass 1 of update_dax_expression substitutes no token that directly
\* follows '[': an expression whose only table_map keys directly follow '['
\* comes back as it was
C19_NoSubstitutionAfterBracket ==
    (ret.done /\ call.fn = "dax" /\ call.tm # <<>> /\ call.cm = <<>>
        /\ KeysOnlyAfterBracket(call.expr, call.tm))
        => ret.v = call.expr

\* C20: for a column_map key (T, C) -> C2, where update_property rewrites
\* the Column node with Entity T and Property C it also rewrites the
\* references T[C] and 'T'[C] of the expression strings, whatever characters
\* C has: the document has the new name in both places
C20_BindingAndExpressionAgree ==
    \A q \in {<<>>, <<QUOTE>>}, c \in {cc, ccx, ce} :
        (ret.done /\ call.fn = "property" /\ call.doc = MixedDoc(q, tA, c)
            /\ <<tA, c>> \in DOMAIN call.cm)
            => ret.v = MixedDoc(q, tA, call.cm[<<tA, c>>])

\* ---------------------------------------------------------------------
\* C21: update_property and the depth of the document

\* value has the shape {Expression: {SourceRef: {Entity: e}}, Property: p}
\* with (e, p) a key of column_map
IsKeyBinding(value, cmap) ==
    /\ IsObj(value)
    /\ GetChain(value, <<"Expression", "SourceRef">>).ok
    /\ IsObj(GetChain(value, <<"Expression", "SourceRef">>).v)
    /\ IsStr(GetOr(GetChain(value, <<"Expression", "SourceRef">>).v, "Entity", Null))
    /\ IsStr(GetOr(value, "Property", Null))
    /\ <<GetOr(GetChain(value, <<"Expression", "SourceRef">>).v, "Entity", Null)[2],
         GetOr(value, "Property", Null)[2]>> \in DOMAIN cmap

\* some Column or Measure node of the document, at any depth, is bound to a
\* key of cmap
RECURSIVE HoldsKeyBinding(_, _)
HoldsKeyBinding(v, cmap) ==
    IF IsObj(v)
    THEN \E i \in 1..Len(v[2]) :
            \/ v[2][i][1] \in BindingKinds /\ IsKeyBinding(v[2][i][2], cmap)
            \/ HoldsKeyBinding(v[2][i][2], cmap)
    ELSE IF IsArr(v)
    THEN \E i \in 1..Len(v[2]) : HoldsKeyBinding(v[2][i], cmap)
    ELSE FALSE

\* C21: update_property reaches every object at every depth: after it
\* returns, no Column or Measure node of the shape
\* {Expression: {SourceRef: {Entity: e}}, Property: p} is left with (e, p) a
\* key of cmap, wherever the node is nested (below a "filter" key, in
\* a filter that lacks From or Where, inside the value of another binding)
C21_EveryBindingReached ==
    (/\ ret.done /\ call.fn = "property" /\ ~ret.err
     /\ \A k \in DOMAIN call.cm : <<k[1], call.cm[k]>> \notin DOMAIN call.cm)
        => ~HoldsKeyBinding(ret.v, call.cm)

\* ---------------------------------------------------------------------
\* C22: update_entity and update_property return True if and only if the
\* document after the call differs from the document before it; a map entry
\* that maps a name to itself yields False
C22_UpdatedIffChanged ==
    (ret.done /\ call.fn \in {"entity", "property"} /\ ~ret.err)
        => (ret.updated <=> ret.v # call.doc)

\* ---------------------------------------------------------------------
\* C23: in batch_update_pbir_project the final content of a file depends on
\* that file's prior content and the maps only: once the run has ended, every
\* file holds what update_pbir_component makes of its own prior content,
\* whatever the other files hold and in whatever order os.walk yields them
C23_FilesIndependent ==
    (bpc = "done" \/ (bpc = "failed" /\ visited # {}))
        => \A f \in Files : disk[f] = Rewritten(f)

\* ---------------------------------------------------------------------
\* C24: remove_hidden_visuals_never_shown deletes only the folders of the
\* hidden visuals that no bookmark shows: every visual that is not hidden,
\* and every hidden visual that some bookmark shows, still has its folder
\* and its visual.json after the action, also on a page that lost a visual
C24_OnlyNeverShownDeleted ==
    JustRan("remove_hidden_visuals_never_shown")
        => \A name \in DOMAIN LastRun.before.visuals :
              ~NeverShown(LastRun.before, name)
                  => /\ name \in DOMAIN tree.visuals
                     /\ tree.visuals[name] = LastRun.before.visuals[name]
                     /\ tree.visuals[name].page \in tree.visualsDirs

(***************************************************************************)
(* run_actions_stream: requests that capture the output of the global      *)
(* console while a thread runs sanitize_powerbi_report                     *)
(***************************************************************************)
\* {"type": msg_type, "message": message}: the n-th message of the run r
Message(r, n) == [type |-> "info", message |-> <<r, n>>]
\* what generate() yields
MessageEvent(msg) == [event |-> "message", data |-> msg]
CompleteEvent == [event |-> "complete", data |-> <<>>]

\* list.remove(q)
Remove(list, q) == LET Other(x) == x # q IN SelectSeq(list, Other)

StreamInit ==
    /\ BatchIdle
    /\ RulesIdle
    /\ call = IdleCall
    /\ ret = Pending
    /\ SanIdle
    /\ StreamIdle

\* with console.capture_output() as queue:  q = Queue(); append(q); yield q
capture_output(r) ==
    /\ gen[r] = "idle"
    /\ _broadcast_queues' = Append(_broadcast_queues, r)
    /\ gen' = [gen EXCEPT ![r] = "start"]
    /\ UNCHANGED <<queue, thread, events>>
    /\ UNCHANGED <<batchVars, fnVars, sanVars, ioVars, ruleVars>>

\* thread = threading.Thread(target=run); thread.start()
StartThread(r) ==
    /\ gen[r] = "start"
    /\ thread' = [thread EXCEPT ![r].state = "running"]
    /\ gen' = [gen EXCEPT ![r] = "is_alive"]
    /\ UNCHANGED <<_broadcast_queues, queue, events>>
    /\ UNCHANGED <<batchVars, fnVars, sanVars, ioVars, ruleVars>>

\* the run prints a message: _broadcast starts to iterate over the list
BeginBroadcast(r) ==
    /\ thread[r].state = "running"
    /\ thread[r].sent < MaxMsgs
    /\ thread' = [thread EXCEPT ![r] = [state |-> "broadcast", sent |-> @.sent + 1,
                                        i |-> 1]]
    /\ UNCHANGED <<_broadcast_queues, queue, gen, events>>
    /\ UNCHANGED <<batchVars, fnVars, sanVars, ioVars, ruleVars>>

\* for q in self._broadcast_queues: q.put_nowait(...): the list iterator
\* yields the element at its index as long as the index is below the length
\* the list has at that moment
PutNowait(r) ==
    /\ thread[r].state = "broadcast"
    /\ thread[r].i <= Len(_broadcast_queues)
    /\ queue' = [queue EXCEPT ![_broadcast_queues[thread[r].i]] =
                    Append(@, Message(r, thread[r].sent))]
    /\ thread' = [thread EXCEPT ![r].i = @ + 1]
    /\ UNCHANGED <<_broadcast_queues, gen, events>>
    /\ UNCHANGED <<batchVars, fnVars, sanVars, ioVars, ruleVars>>

\* the iterator is exhausted: _broadcast returns
EndBroadcast(r) ==
    /\ thread[r].state = "broadcast"
    /\ thread[r].i > Len(_broadcast_queues)
    /\ thread' = [thread EXCEPT ![r].state = "running"]
    /\ UNCHANGED <<_broadcast_queues, queue, gen, events>>
    /\ UNCHANGED <<batchVars, fnVars, sanVars, ioVars, ruleVars>>

\* run() returns or raises: the thread ends
ThreadExit(r) ==
    /\ thread[r].state = "running"
    /\ thread' = [thread EXCEPT ![r].state = "dead"]
    /\ UNCHANGED <<_broadcast_queues, queue, gen, events>>
    /\ UNCHANGED <<batchVars, fnVars, sanVars, ioVars, ruleVars>>

\* while thread.is_alive() or ...: the left operand
IsAlive(r) ==
    /\ gen[r] = "is_alive"
    /\ gen' = [gen EXCEPT ![r] = IF thread[r].state \in {"running", "broadcast"}
                                 THEN "get_nowait" ELSE "empty"]
    /\ UNCHANGED <<_broadcast_queues, queue, thread, events>>
    /\ UNCHANGED <<batchVars, fnVars, sanVars, ioVars, ruleVars>>

\* ... or not queue.empty(): evaluated when the thread is not alive
QueueEmpty(r) ==
    /\ gen[r] = "empty"
    /\ gen' = [gen EXCEPT ![r] = IF queue[r] = <<>> THEN "complete" ELSE "get_nowait"]
    /\ UNCHANGED <<_broadcast_queues, queue, thread, events>>
    /\ UNCHANGED <<batchVars, fnVars, sanVars, ioVars, ruleVars>>

\* msg = queue.get_nowait(); yield the message; on Empty sleep and loop
GetNowait(r) ==
    /\ gen[r] = "get_nowait"
    /\ IF queue[r] # <<>>
       THEN /\ events' = [events EXCEPT ![r] = Append(@, MessageEvent(Head(queue[r])))]
            /\ queue' = [queue EXCEPT ![r] = Tail(@)]
       ELSE UNCHANGED <<queue, events>>
    /\ gen' = [gen EXCEPT ![r] = "is_alive"]
    /\ UNCHANGED <<_broadcast_queues, thread>>
    /\ UNCHANGED <<batchVars, fnVars, sanVars, ioVars, ruleVars>>

\* yield {"event": "complete", "data": "{}"}
YieldComplete(r) ==
    /\ gen[r] = "complete"
    /\ events' = [events EXCEPT ![r] = Append(@, CompleteEvent)]
    /\ gen' = [gen EXCEPT ![r] = "exit"]
    /\ UNCHANGED <<_broadcast_queues, queue, thread>>
    /\ UNCHANGED <<batchVars, fnVars, sanVars, ioVars, ruleVars>>

\* the with block is left: finally self._broadcast_queues.remove(q)
ExitCapture(r) ==
    /\ gen[r] = "exit"
    /\ _broadcast_queues' = Remove(_broadcast_queues, r)
    /\ gen' = [gen EXCEPT ![r] = "closed"]
    /\ UNCHANGED <<queue, thread, events>>
    /\ UNCHANGED <<batchVars, fnVars, sanVars, ioVars, ruleVars>>

\* the steps of the coroutine generate() of a request
generate(r) ==
    \/ capture_output(r)
    \/ StartThread(r)
    \/ IsAlive(r)
    \/ QueueEmpty(r)
    \/ GetNowait(r)
    \/ YieldComplete(r)
    \/ ExitCapture(r)

\* the steps of the thread of a request
run(r) ==
    \/ BeginBroadcast(r)
    \/ PutNowait(r)
    \/ EndBroadcast(r)
    \/ ThreadExit(r)

StreamNext == \E r \in Runs : generate(r) \/ run(r)

SpecStream == StreamInit /\ [][StreamNext]_vars

\* the event loop resumes a coroutine that is ready or whose sleep is over
SpecStreamFair == SpecStream /\ \A r \in Runs : WF_vars(generate(r))

\* the events of a request that carry a message of its own run, and the
\* messages its run has printed
OwnEvents(r) ==
    LET IsOwn(e) == e.event = "message" /\ e.data.message[1] = r
    IN  SelectSeq(events[r], IsOwn)
Printed(r) == [n \in 1..thread[r].sent |-> MessageEvent(Message(r, n))]
Completed(r) == \E i \in 1..Len(events[r]) : events[r][i].event = "complete"

IsPrefix(s, t) == Len(s) <= Len(t) /\ \A i \in 1..Len(s) : s[i] = t[i]

\* the messages of the run are yielded once each and in the order printed,
\* all of them before the one "complete" event, which is the last event
C25_Delivered ==
    \A r \in Runs :
        /\ IsPrefix(OwnEvents(r), Printed(r))
        /\ Completed(r)
            => /\ OwnEvents(r) = Printed(r)
               /\ \A i \in 1..Len(events[r]) :
                     events[r][i].event = "complete" <=> i = Len(events[r])

\* once the thread has ended, generate() yields "complete" and stops
C25_Terminates ==
    \A r \in Runs : (thread[r].state = "dead") ~> (gen[r] = "closed" /\ Completed(r))

\* C25: in a streaming run, under every interleaving of the thread and the
\* polling generator, every message the thread broadcasts is yielded to the
\* client exactly once, in broadcast order, before the "complete" event; and
\* once the thread has ended the generator eventually yields "complete"
\* exactly once and stops
C25_StreamDelivers == []C25_Delivered /\ C25_Terminates

\* C26: with two capture_output contexts active at the same time, the queue
\* of each context receives only the messages of its own run: no message of
\* one run is delivered to the client of the other
C26_CapturedOutputIsolated ==
    \A r \in Runs :
        /\ \A i \in 1..Len(queue[r]) : queue[r][i].message[1] = r
        /\ \A i \in 1..Len(events[r]) :
              events[r][i].event = "message" => events[r][i].data.message[1] = r

\* ---------------------------------------------------------------------
\* C28: renames are simultaneous

\* table maps between one-letter names: a chain, a swap, a single rename
OneLetterMaps == {(tA :> tB), (tA :> tB) @@ (tB :> tC), (tA :> tB) @@ (tB :> tA)}

\* the original name replaced once
Once(name, tm) == IF name \in DOMAIN tm THEN tm[name] ELSE name

\* every one-letter table token of s replaced once, at its place
Simultaneous(s, tm) == [i \in 1..Len(s) |-> Once(<<s[i]>>, tm)[1]]

\* C28: within one call update_entity replaces each Entity and each
\* entities[].name value at most once, and pass 1 of update_dax_expression
\* replaces each table token at most once without rescanning what it put
\* in: with {A: B, B: C} an original A becomes B, not C, and with
\* {A: B, B: A} the two names are swapped
C28_RenamesSimultaneous ==
    (ret.done /\ call.tm \in OneLetterMaps)
        => /\ \A e \in {tA, tB, tC} :
                (call.fn = "entity" /\ call.doc = EntityDoc(e))
                    => ret.v = EntityDoc(Once(e, call.tm))
           /\ \A e \in {tA, tB, tC}, x \in {BareRef(tA, cc), BareRef(tB, cc), BareRef(tC, cd)} :
                (call.fn = "entity" /\ call.doc = EntitiesDoc(e, x))
                    => ret.v = EntitiesDoc(Once(e, call.tm), Simultaneous(x, call.tm))
           /\ \A x \in ChainExprs :
                /\ (call.fn = "entity" /\ call.doc = ExprDoc(x))
                        => ret.v = ExprDoc(Simultaneous(x, call.tm))
                /\ (call.fn = "dax" /\ call.cm = <<>> /\ call.expr = x)
                        => ret.v = Simultaneous(x, call.tm)

C28_Witness ==
    /\ ret.done
    /\ call.fn = "entity"
    /\ call.tm = (tA :> tB) @@ (tB :> tC)
    /\ call.doc = EntitiesDoc(tA, BareRef(tA, cc))
    /\ ret.v = EntitiesDoc(tB, BareRef(tB, cc))

\* ---------------------------------------------------------------------
\* C27: the active page stays the first page

\* activePageName == pageOrder[0]
ActivePageFirst(t) == t.pageOrder # <<>> /\ t.activePageName = t.pageOrder[1]

\* what pages.json holds
PagesJson(t) == <<t.pageOrder, t.activePageName>>

C27_Step ==
    /\ ActivePageFirst(tree) => ActivePageFirst(tree')
    /\ (/\ Len(san'.runs) > Len(san.runs)
        /\ san'.runs[Len(san'.runs)].action
              \notin {"set_first_page_as_active", "remove_empty_pages"})
           => PagesJson(tree') = PagesJson(tree)

\* C27: once activePageName == pageOrder[0] holds, as after
\* set_first_page_as_active, it holds after every further sanitizer action:
\* remove_empty_pages points activePageName to the new first page when the
\* old first page is pruned, and no other action writes pages.json
C27_ActivePageStaysFirst == [][C27_Step]_vars

\* set_first_page_as_active made the empty page P1 active, remove_empty_pages
\* pruned it and P2 is the active and first page
C27_Witness ==
    /\ san.actions = <<"set_first_page_as_active", "remove_empty_pages">>
    /\ Len(san.runs) = 2
    /\ ~LastRun.err
    /\ san.runs[1].before.activePageName = "P2"
    /\ LastRun.before.pageOrder = <<"P1", "P2">>
    /\ LastRun.before.activePageName = "P1"
    /\ tree.pageOrder = <<"P2">>
    /\ tree.activePageName = "P2"

OnlyNeverShown(t, page) ==
    /\ page \in Range(t.pageOrder)
    /\ NonEmptyPage(t, page)
    /\ \A v \in DOMAIN t.visuals : t.visuals[v].page = page => NeverShown(t, v)

\* the page is listed and has visuals, none of them hidden
NothingHidden(t, page) ==
    /\ page \in Range(t.pageOrder)
    /\ NonEmptyPage(t, page)
    /\ \A v \in DOMAIN t.visuals : t.visuals[v].page = page => ~t.visuals[v].isHidden

\* C30: on a tree with a page whose visuals are all hidden and never shown,
\* next to a page of visible visuals, sanitize_powerbi_report with
\* [remove_empty_pages, remove_hidden_visuals_never_shown] leaves in pageOrder
\* that page with no visuals left, the order
\* [remove_hidden_visuals_never_shown, remove_empty_pages] removes it, and a
\* second run of the first list changes the tree again
C30_ActionsDoNotCommute ==
    \A p, q \in {"P1", "P2"} :
        (/\ san.status = "done"
         /\ OnlyNeverShown(san.runs[1].before, p)
         /\ NothingHidden(san.runs[1].before, q))
            => /\ san.actions = PagesThenHidden
                    => p \in Range(tree.pageOrder) /\ ~NonEmptyPage(tree, p)
               /\ san.actions = HiddenThenPages => p \notin Range(tree.pageOrder)
               /\ san.actions = PagesThenHidden \o PagesThenHidden
                    => /\ p \in Range(san.runs[3].before.pageOrder)
                       /\ p \notin Range(tree.pageOrder)
                       /\ tree # san.runs[3].before

\* the first order has run on the tree with h1 alone on P1: P1 is listed and
\* has no visuals folder left
C30_Witness ==
    /\ san.status = "done"
    /\ san.actions = PagesThenHidden
    /\ OnlyNeverShown(san.runs[1].before, "P1")
    /\ NothingHidden(san.runs[1].before, "P2")
    /\ tree.pageOrder = <<"P1", "P2">>
    /\ ~NonEmptyPage(tree, "P1")

====
